---- MODULE Spec2Model ----
(***************************************************************************)
(* Model of the binary VDF reader of deck-screenshot-explorer              *)
(* (backend/src/vendor/vdfr.rs): the nom primitives it is built from, the  *)
(* key-value decoder parse_bytes_kv, the string decoders parse_utf8 and    *)
(* parse_utf16, and the appinfo.vdf envelope loader AppInfo::load; of the  *)
(* shortcut reader of backend/src/steam.rs; and of the process itself:     *)
(* the start of main (backend/src/main.rs), which builds SharedAppState,   *)
(* and the request handlers of backend/src/routes.rs that read it.         *)
(*                                                                         *)
(* Representation.                                                         *)
(*   - a byte slice is a sequence of integers 0..255; a parser takes the   *)
(*     slice d and the 1-based position pos of its first unread byte, the  *)
(*     nom "remaining input" being d[pos..Len(d)];                         *)
(*   - a parser returns [ok, rest, val, code]: on success the position     *)
(*     after the bytes consumed and the value; on failure the nom          *)
(*     ErrorKind in code and the position of the error's input in rest     *)
(*     (every failure of this file is nom::Err::Error);                    *)
(*   - TLC integers are 32 bits wide, so a u32 is carried as its 32-bit    *)
(*     pattern: v below 2^31, v - 2^32 from 2^31 on (the value `v as i32`);*)
(*     a 64-bit value is carried as its four 16-bit limbs, most            *)
(*     significant first; an f32 is carried as its bit pattern;            *)
(*   - a Rust String is the sequence of its Unicode scalar values;         *)
(*   - a HashMap is a function on the set of its keys.                     *)
(***************************************************************************)
EXTENDS Integers, Sequences, FiniteSets, TLC

\* src:  what the input was built from (see Inputs)
\* data: the input bytes
\* call: the operation applied to data, "none" before it is
\* ret:  what the operation returned
\* disk: the files the process reads when it starts
\* main: where main stands and what it has loaded (see Main)
\* shared: the SharedAppState the handlers are given, None before it is built
\* requests: the requests in flight, one slot each
VARIABLES src, data, call, ret, disk, main, shared, requests

vars == <<src, data, call, ret, disk, main, shared, requests>>

\* the process and its disk, which the operations applied to one input
\* leave alone
server == <<disk, main, shared, requests>>

(***************************************************************************)
(* Sequence helpers.                                                       *)
(***************************************************************************)
RECURSIVE Flatten(_)
Flatten(ss) == IF ss = <<>> THEN <<>> ELSE Head(ss) \o Flatten(Tail(ss))

SeqsUpTo(S, n) == UNION {[1..k -> S] : k \in 0..n}

Range(s) == {s[i] : i \in DOMAIN s}

(***************************************************************************)
(* Type bytes of the binary key-value stream and the envelope magics.      *)
(***************************************************************************)
BIN_NONE == 0
BIN_STRING == 1
BIN_INT32 == 2
BIN_FLOAT32 == 3
BIN_POINTER == 4
BIN_WIDESTRING == 5
BIN_COLOR == 6
BIN_UINT64 == 7
BIN_END == 8
BIN_INT64 == 10
BIN_END_ALT == 11

\* 0x07564427, 0x07564428, 0x07564429
MAGIC_27 == 123094055
MAGIC_28 == 123094056
MAGIC_29 == 123094057

(***************************************************************************)
(* Parser results.                                                         *)
(***************************************************************************)
POk(rest, val) == [ok |-> TRUE, rest |-> rest, val |-> val, code |-> "None"]

PErr(code, at) == [ok |-> FALSE, rest |-> at, val |-> <<>>, code |-> code]

\* `r?`: the rest of the function K runs on a success r, a failure is returned
Try(r, K(_)) == IF r.ok THEN K(r) ELSE r

\* `let v = ...;`
With(v, K(_)) == K(v)

\* number of unread bytes of slice d at position pos
Remaining(d, pos) == Len(d) - pos + 1

(***************************************************************************)
(* nom::number::complete and nom::bytes::complete.                         *)
(***************************************************************************)
le_u8(d, pos) ==
    IF Remaining(d, pos) < 1 THEN PErr("Eof", pos) ELSE POk(pos + 1, d[pos])

le_u16(d, pos) ==
    IF Remaining(d, pos) < 2 THEN PErr("Eof", pos)
    ELSE POk(pos + 2, d[pos] + 256 * d[pos + 1])

be_u16(d, pos) ==
    IF Remaining(d, pos) < 2 THEN PErr("Eof", pos)
    ELSE POk(pos + 2, 256 * d[pos] + d[pos + 1])

\* the 32-bit pattern b0 + 2^8 b1 + 2^16 b2 + 2^24 b3, as an i32
Bits32(b0, b1, b2, b3) ==
    b0 + 256 * b1 + 65536 * b2
       + 16777216 * (IF b3 >= 128 THEN b3 - 256 ELSE b3)

le_u32(d, pos) ==
    IF Remaining(d, pos) < 4 THEN PErr("Eof", pos)
    ELSE POk(pos + 4, Bits32(d[pos], d[pos + 1], d[pos + 2], d[pos + 3]))

le_i32(d, pos) ==
    IF Remaining(d, pos) < 4 THEN PErr("Eof", pos)
    ELSE POk(pos + 4, Bits32(d[pos], d[pos + 1], d[pos + 2], d[pos + 3]))

le_f32(d, pos) ==
    IF Remaining(d, pos) < 4 THEN PErr("Eof", pos)
    ELSE POk(pos + 4, Bits32(d[pos], d[pos + 1], d[pos + 2], d[pos + 3]))

\* the four 16-bit limbs of a little-endian 64-bit value, most significant first
Limbs64(d, pos) ==
    << d[pos + 6] + 256 * d[pos + 7], d[pos + 4] + 256 * d[pos + 5],
       d[pos + 2] + 256 * d[pos + 3], d[pos] + 256 * d[pos + 1] >>

le_u64(d, pos) ==
    IF Remaining(d, pos) < 8 THEN PErr("Eof", pos)
    ELSE POk(pos + 8, Limbs64(d, pos))

le_i64(d, pos) ==
    IF Remaining(d, pos) < 8 THEN PErr("Eof", pos)
    ELSE POk(pos + 8, Limbs64(d, pos))

\* take(n): the next n bytes
take(n, d, pos) ==
    IF Remaining(d, pos) < n THEN PErr("Eof", pos)
    ELSE POk(pos + n, SubSeq(d, pos, pos + n - 1))

\* positions i >= pos at which the tag (a byte sequence) occurs in d
TagAt(tag, d, i) ==
    /\ i + Len(tag) - 1 <= Len(d)
    /\ \A j \in 1..Len(tag) : d[i + j - 1] = tag[j]

\* take_until(tag): the bytes before the first occurrence of tag, which is
\* left unread; TakeUntil when the tag does not occur
take_until(tag, d, pos) ==
    LET hits == {i \in pos..Len(d) : TagAt(tag, d, i)} IN
    IF hits = {} THEN PErr("TakeUntil", pos)
    ELSE LET first == CHOOSE i \in hits : \A j \in hits : i <= j IN
         POk(first, SubSeq(d, pos, first - 1))

(***************************************************************************)
(* std::str::from_utf8: the well-formed UTF-8 byte sequences (no overlong  *)
(* form, no surrogate, nothing above U+10FFFF) and their scalar values.    *)
(***************************************************************************)
Utf8SeqLen(b) ==
    IF b < 128 THEN 1
    ELSE IF b \in 194..223 THEN 2
    ELSE IF b \in 224..239 THEN 3
    ELSE IF b \in 240..244 THEN 4
    ELSE 0

Utf8SeqOk(buf, i) ==
    LET n == Utf8SeqLen(buf[i]) IN
    /\ n > 0
    /\ i + n - 1 <= Len(buf)
    /\ \A j \in 1..(n - 1) : buf[i + j] \in 128..191
    /\ (buf[i] = 224 => buf[i + 1] >= 160)
    /\ (buf[i] = 237 => buf[i + 1] <= 159)
    /\ (buf[i] = 240 => buf[i + 1] >= 144)
    /\ (buf[i] = 244 => buf[i + 1] <= 143)

Utf8Scalar(buf, i) ==
    LET n == Utf8SeqLen(buf[i]) IN
    IF n = 1 THEN buf[i]
    ELSE IF n = 2 THEN (buf[i] - 192) * 64 + (buf[i + 1] - 128)
    ELSE IF n = 3 THEN (buf[i] - 224) * 4096 + (buf[i + 1] - 128) * 64
                          + (buf[i + 2] - 128)
    ELSE (buf[i] - 240) * 262144 + (buf[i + 1] - 128) * 4096
            + (buf[i + 2] - 128) * 64 + (buf[i + 3] - 128)

RECURSIVE Utf8Valid(_, _)
Utf8Valid(buf, i) ==
    IF i > Len(buf) THEN TRUE
    ELSE Utf8SeqOk(buf, i) /\ Utf8Valid(buf, i + Utf8SeqLen(buf[i]))

RECURSIVE Utf8Chars(_, _)
Utf8Chars(buf, i) ==
    IF i > Len(buf) THEN <<>>
    ELSE <<Utf8Scalar(buf, i)>> \o Utf8Chars(buf, i + Utf8SeqLen(buf[i]))

\* a slip: the bytes taken as text without the UTF-8 check
from_utf8_unchecked(buf) == [ok |-> TRUE, val |-> buf]

\* Result<&str, Utf8Error>
from_utf8(buf) ==
    IF Utf8Valid(buf, 1) THEN [ok |-> TRUE, val |-> Utf8Chars(buf, 1)]
    ELSE [ok |-> FALSE, val |-> <<>>]

(***************************************************************************)
(* String::from_utf16_lossy: a surrogate pair is one scalar value, an      *)
(* unpaired surrogate is U+FFFD.                                           *)
(***************************************************************************)
RECURSIVE from_utf16_lossy(_, _)
from_utf16_lossy(v, i) ==
    IF i > Len(v) THEN <<>>
    ELSE IF v[i] \notin 55296..57343
         THEN <<v[i]>> \o from_utf16_lossy(v, i + 1)
    ELSE IF v[i] <= 56319 /\ i + 1 <= Len(v) /\ v[i + 1] \in 56320..57343
         THEN <<65536 + (v[i] - 55296) * 1024 + (v[i + 1] - 56320)>>
                  \o from_utf16_lossy(v, i + 2)
    ELSE <<65533>> \o from_utf16_lossy(v, i + 1)

(***************************************************************************)
(* parse_utf8 and parse_utf16.                                             *)
(***************************************************************************)
parse_utf8(d, pos) ==
    Try(take_until(<<0>>, d, pos), LAMBDA t :
    Try(le_u8(d, t.rest), LAMBDA nul :
    With(from_utf8(t.val), LAMBDA s :
    IF ~s.ok THEN PErr("Char", nul.rest) ELSE POk(nul.rest, s.val))))

\* the BOM check: the bytes after a BOM FE FF or FF FE and the endianness it
\* selects; big-endian and all bytes when there is none
strip_bom(buf) ==
    IF Len(buf) >= 2 /\ buf[1] = 254 /\ buf[2] = 255
    THEN [buf |-> SubSeq(buf, 3, Len(buf)), bom |-> "Be"]
    ELSE IF Len(buf) >= 2 /\ buf[1] = 255 /\ buf[2] = 254
    THEN [buf |-> SubSeq(buf, 3, Len(buf)), bom |-> "Le"]
    ELSE [buf |-> buf, bom |-> "Be"]

\* the u16 code units of buf: buf.len() / 2 of them, a trailing odd byte dropped
CodeUnits(buf, endian) ==
    [i \in 1..(Len(buf) \div 2) |->
        IF endian = "Be" THEN 256 * buf[2 * i - 1] + buf[2 * i]
        ELSE buf[2 * i - 1] + 256 * buf[2 * i]]

parse_utf16(d, pos) ==
    Try(take_until(<<0, 0>>, d, pos), LAMBDA t :
    With(strip_bom(t.val), LAMBDA b :
    Try(IF b.bom = "Be" THEN be_u16(d, t.rest) ELSE le_u16(d, t.rest),
        LAMBDA nul :
    POk(nul.rest, from_utf16_lossy(Append(CodeUnits(b.buf, b.bom), 0), 1)))))

(***************************************************************************)
(* HashMap.                                                                *)
(***************************************************************************)
HashMapNew == <<>>

\* a slip: the value of a key already in the map is kept
HashMapInsert_keeps_first(m, k, v) ==
    IF k \in DOMAIN m THEN m ELSE [x \in (DOMAIN m) \cup {k} |-> IF x = k THEN v ELSE m[x]]

HashMapInsert(m, k, v) ==
    [x \in (DOMAIN m) \cup {k} |-> IF x = k THEN v ELSE m[x]]

HashMapRemove(m, k) == [x \in (DOMAIN m) \ {k} |-> m[x]]

(***************************************************************************)
(* Value and KeyValueOptions.                                              *)
(***************************************************************************)
Value(kind, val) == [kind |-> kind, val |-> val]

KeyValueOptions(string_pool, alt_format) ==
    [string_pool |-> string_pool, alt_format |-> alt_format]

KeyValueOptionsDefault == KeyValueOptions(<<>>, FALSE)

(***************************************************************************)
(* parse_bytes_kv: the loop over the entries of one map, the key of an     *)
(* entry, and the payload its type byte selects.                           *)
(***************************************************************************)
\* the key: inline when the pool is empty, else a u32 index into the pool
\* (`index as usize >= len` on the unsigned value)
parse_key(d, pos, options) ==
    IF options.string_pool = <<>> THEN parse_utf8(d, pos)
    ELSE Try(le_u32(d, pos), LAMBDA index :
         IF index.val < 0 \/ index.val >= Len(options.string_pool)
         THEN PErr("Eof", index.rest)
         ELSE POk(index.rest, options.string_pool[index.val + 1]))

RECURSIVE parse_bytes_kv_loop(_, _, _, _)
RECURSIVE parse_value(_, _, _, _)

parse_bytes_kv(d, pos, options) ==
    parse_bytes_kv_loop(d, pos, options, HashMapNew)

\* Ok((res, variant(value)))
Wrap(kind, r) == POk(r.rest, Value(kind, r.val))

parse_value(bin, d, pos, options) ==
    IF bin = BIN_NONE THEN
        Try(parse_bytes_kv(d, pos, options), LAMBDA r : Wrap("KeyValueType", r))
    ELSE IF bin = BIN_STRING THEN
        Try(parse_utf8(d, pos), LAMBDA r : Wrap("StringType", r))
    ELSE IF bin = BIN_WIDESTRING THEN
        Try(parse_utf16(d, pos), LAMBDA r : Wrap("WideStringType", r))
    ELSE IF bin \in {BIN_INT32, BIN_POINTER, BIN_COLOR} THEN
        Try(le_i32(d, pos), LAMBDA r :
            Wrap(IF bin = BIN_INT32 THEN "Int32Type"
                 ELSE IF bin = BIN_POINTER THEN "PointerType"
                 ELSE "ColorType", r))
    ELSE IF bin = BIN_UINT64 THEN
        Try(le_u64(d, pos), LAMBDA r : Wrap("UInt64Type", r))
    ELSE IF bin = BIN_INT64 THEN
        Try(le_i64(d, pos), LAMBDA r : Wrap("Int64Type", r))
    ELSE IF bin = BIN_FLOAT32 THEN
        Try(le_f32(d, pos), LAMBDA r : Wrap("Float32Type", r))
    ELSE PErr("Char", pos)

bin_end(options) == IF options.alt_format THEN BIN_END_ALT ELSE BIN_END

parse_bytes_kv_loop(d, pos, options, node) ==
    Try(le_u8(d, pos), LAMBDA bin :
    IF bin.val = bin_end(options) THEN POk(bin.rest, node) ELSE
    Try(parse_key(d, bin.rest, options), LAMBDA key :
    Try(parse_value(bin.val, d, key.rest, options), LAMBDA value :
    parse_bytes_kv_loop(d, value.rest, options,
                        HashMapInsert(node, key.val, value.val)))))

(***************************************************************************)
(* VdfrError and throw_error.                                              *)
(***************************************************************************)
VdfrError(variant, code, args) ==
    [variant |-> variant, code |-> code, args |-> args]

\* NomError(format!("Error: {:?}, data: {:?}", e.code, <at most 64 bytes of e.input>))
throw_error(r, d) ==
    LET input == SubSeq(d, r.rest, Len(d)) IN
    VdfrError("NomError", r.code,
              IF Len(input) > 64 THEN SubSeq(input, 1, 64) ELSE input)

NoError == VdfrError("None", "None", <<>>)

(***************************************************************************)
(* parse_keyvalues.                                                        *)
(***************************************************************************)
KvOk(val) == [tag |-> "Ok", val |-> val, err |-> NoError]

KvErr(e) == [tag |-> "Err", val |-> HashMapNew, err |-> e]

parse_keyvalues(d) ==
    With(parse_bytes_kv(d, 1, KeyValueOptionsDefault), LAMBDA r :
    IF ~r.ok THEN KvErr(throw_error(r, d)) ELSE KvOk(r.val))

(***************************************************************************)
(* parse_app, parse_apps and AppInfo::load.                                *)
(***************************************************************************)
\* Option<T>: None is <<>>, Some(x) is <<x>>
None == <<>>

Some(x) == <<x>>

Zeros(n) == [i \in 1..n |-> 0]

App(id, size, state, last_update, access_token, checksum_txt, checksum_bin, change_number, key_values) ==
    [id |-> id, size |-> size, state |-> state, last_update |-> last_update,
     access_token |-> access_token, checksum_txt |-> checksum_txt,
     checksum_bin |-> checksum_bin, change_number |-> change_number,
     key_values |-> key_values]

\* the App returned for id 0: "End of apps, return empty app"
EmptyApp ==
    App(0, 0, 0, 0, <<0, 0, 0, 0>>, Zeros(20), Some(Zeros(20)), 0, HashMapNew)

\* a slip: checksum_bin read next to checksum_txt, before change_number
parse_app_checksums_together(d, pos, options, version) ==
    Try(le_u32(d, pos), LAMBDA app_id :
    IF app_id.val = 0 THEN POk(app_id.rest, EmptyApp) ELSE
    Try(le_u32(d, app_id.rest), LAMBDA size :
    Try(le_u32(d, size.rest), LAMBDA state :
    Try(le_u32(d, state.rest), LAMBDA last_update :
    Try(le_u64(d, last_update.rest), LAMBDA access_token :
    Try(take(20, d, access_token.rest), LAMBDA checksum_txt :
    Try(IF version = MAGIC_27 THEN POk(checksum_txt.rest, None)
        ELSE Try(take(20, d, checksum_txt.rest),
                 LAMBDA b : POk(b.rest, Some(b.val))),
        LAMBDA checksum_bin :
    Try(le_u32(d, checksum_bin.rest), LAMBDA change_number :
    Try(parse_bytes_kv(d, change_number.rest, options), LAMBDA key_values :
    POk(key_values.rest,
        App(app_id.val, size.val, state.val, last_update.val,
            access_token.val, checksum_txt.val, checksum_bin.val,
            change_number.val, key_values.val)))))))))))

parse_app(d, pos, options, version) ==
    Try(le_u32(d, pos), LAMBDA app_id :
    IF app_id.val = 0 THEN POk(app_id.rest, EmptyApp) ELSE
    Try(le_u32(d, app_id.rest), LAMBDA size :
    Try(le_u32(d, size.rest), LAMBDA state :
    Try(le_u32(d, state.rest), LAMBDA last_update :
    Try(le_u64(d, last_update.rest), LAMBDA access_token :
    Try(take(20, d, access_token.rest), LAMBDA checksum_txt :
    Try(le_u32(d, checksum_txt.rest), LAMBDA change_number :
    Try(IF version = MAGIC_27 THEN POk(change_number.rest, None)
        ELSE Try(take(20, d, change_number.rest),
                 LAMBDA b : POk(b.rest, Some(b.val))),
        LAMBDA checksum_bin :
    Try(parse_bytes_kv(d, checksum_bin.rest, options), LAMBDA key_values :
    POk(key_values.rest,
        App(app_id.val, size.val, state.val, last_update.val,
            access_token.val, checksum_txt.val, checksum_bin.val,
            change_number.val, key_values.val)))))))))))

\* many0(|d| parse_app(d, options, version)): apply parse_app until it
\* returns Err::Error, which ends the repetition with the records collected
\* so far; a success that consumed nothing is ErrorKind::Many0
RECURSIVE many0_parse_app(_, _, _, _, _)
many0_parse_app(d, pos, options, version, acc) ==
    With(parse_app(d, pos, options, version), LAMBDA r :
    IF ~r.ok THEN POk(pos, acc)
    ELSE IF r.rest = pos THEN PErr("Many0", pos)
    ELSE many0_parse_app(d, r.rest, options, version, Append(acc, r.val)))

\* apps.into_iter().map(|app| (app.id, app)).collect(): inserted in order
RECURSIVE collect_apps(_, _)
\* a slip: the apps keyed by their position in the stream
collect_apps_by_position(apps, m) == [i \in 1..Len(apps) |-> apps[i]]

collect_apps(apps, m) ==
    IF apps = <<>> THEN m
    ELSE collect_apps(Tail(apps), HashMapInsert(m, Head(apps).id, Head(apps)))

parse_apps(d, pos, options, version) ==
    Try(many0_parse_app(d, pos, options, version, <<>>), LAMBDA r :
    POk(r.rest, collect_apps(r.val, HashMapNew)))

\* count(parse_utf8, amount); an amount of 2^31 or more (negative here) is
\* more strings than the slice has bytes, and ends in the error of parse_utf8
RECURSIVE count_parse_utf8(_, _, _, _)
count_parse_utf8(d, pos, amount, acc) ==
    IF amount = 0 THEN POk(pos, acc)
    ELSE Try(parse_utf8(d, pos), LAMBDA r :
         count_parse_utf8(d, r.rest, amount - 1, Append(acc, r.val)))

read_string_pools(d, pos, amount) == count_parse_utf8(d, pos, amount, <<>>)

\* Result<AppInfo, VdfrError>, or the panic of an arithmetic overflow
LoadOk(version, universe, apps) ==
    [tag |-> "Ok", version |-> version, universe |-> universe, apps |-> apps,
     err |-> NoError]

LoadErr(e) ==
    [tag |-> "Err", version |-> 0, universe |-> 0, apps |-> HashMapNew, err |-> e]

LoadPanic ==
    [tag |-> "Panic", version |-> 0, universe |-> 0, apps |-> HashMapNew,
     err |-> NoError]

\* `r.map_err(throw_error)?` on the slice d that r was parsed from
TryLoad(r, d, K(_)) == IF r.ok THEN K(r) ELSE LoadErr(throw_error(r, d))

\* a slip: the entry of id 0 left in the map
pop_app_zero_skipped(apps) == apps

\* "Pop app 0": apps.remove(&0)
pop_app_zero(apps) == HashMapRemove(apps, 0)

\* offset as usize, for an i64 given by its limbs: the value when it is below
\* 2^31, and -1 for every other value (negative, or 2^31 and more), each of
\* which is a usize of 2^31 or more on a 64-bit target
offset_as_usize(offset) ==
    IF offset[1] = 0 /\ offset[2] = 0 /\ offset[3] < 32768
    THEN offset[3] * 65536 + offset[4]
    ELSE -1

\* the tail of load, common to the three versions
load_apps(payloads, pos, options, version, universe) ==
    TryLoad(parse_apps(payloads, pos, options, version), payloads, LAMBDA r :
    LoadOk(version, universe, pop_app_zero(r.val)))

\* 4usize + 4 + 8
read_amount == 4 + 4 + 8

\* a slip: the records decoded from all the bytes after the header, the
\* pool among them
load_pool_payload_unsplit(rest, offset_actual, version, universe) ==
    TryLoad(take(offset_actual, rest, 1), rest, LAMBDA split :
    With(SubSeq(rest, split.rest, Len(rest)), LAMBDA string_pools :
    TryLoad(le_u32(string_pools, 1), string_pools, LAMBDA count :
    TryLoad(read_string_pools(string_pools, count.rest, count.val),
            string_pools, LAMBDA string_pool :
    load_apps(rest, 1, KeyValueOptions(string_pool.val, FALSE),
              version, universe)))))

\* the split at the pool offset and the pool: rest is the file after the 16
\* bytes of the header
load_pool(rest, offset_actual, version, universe) ==
    TryLoad(take(offset_actual, rest, 1), rest, LAMBDA split :
    With(SubSeq(rest, split.rest, Len(rest)), LAMBDA string_pools :
    TryLoad(le_u32(string_pools, 1), string_pools, LAMBDA count :
    TryLoad(read_string_pools(string_pools, count.rest, count.val),
            string_pools, LAMBDA string_pool :
    load_apps(split.val, 1, KeyValueOptions(string_pool.val, FALSE),
              version, universe)))))

\* a slip: the offset taken from the end of the header, with nothing
\* subtracted for the 16 bytes read
load_29_offset_unadjusted(rest, offset, version, universe, overflow_checks) ==
    With(offset_as_usize(offset), LAMBDA usz :
    IF usz < 0 THEN LoadErr(throw_error(PErr("Eof", 1), rest))
    ELSE load_pool(rest, usz, version, universe))

\* the MAGIC_29 arm.  (offset as usize) - read_amount underflows for an
\* offset of 0..15: a panic with overflow checks, else it wraps to a length
\* no slice has, as does every offset of 2^31 and more
load_29(rest, offset, version, universe, overflow_checks) ==
    With(offset_as_usize(offset), LAMBDA usz :
    IF usz >= 0 /\ usz < read_amount /\ overflow_checks THEN LoadPanic
    ELSE IF usz < read_amount THEN LoadErr(throw_error(PErr("Eof", 1), rest))
    ELSE load_pool(rest, usz - read_amount, version, universe))

\* a slip: the version matched before the universe is read
AppInfo_load_magic_first(d, overflow_checks) ==
    TryLoad(le_u32(d, 1), d, LAMBDA version :
    IF version.val \notin {MAGIC_27, MAGIC_28, MAGIC_29}
    THEN LoadErr(VdfrError("UnknownMagic", "None", <<version.val>>))
    ELSE
    TryLoad(le_u32(d, version.rest), d, LAMBDA universe :
    IF version.val \in {MAGIC_27, MAGIC_28}
    THEN load_apps(d, universe.rest, KeyValueOptionsDefault,
                   version.val, universe.val)
    ELSE TryLoad(le_i64(d, universe.rest), d, LAMBDA offset :
         load_29(SubSeq(d, offset.rest, Len(d)), offset.val, version.val,
                 universe.val, overflow_checks))))

AppInfo_load(d, overflow_checks) ==
    TryLoad(le_u32(d, 1), d, LAMBDA version :
    TryLoad(le_u32(d, version.rest), d, LAMBDA universe :
    IF version.val \in {MAGIC_27, MAGIC_28}
    THEN load_apps(d, universe.rest, KeyValueOptionsDefault,
                   version.val, universe.val)
    ELSE IF version.val = MAGIC_29
    THEN TryLoad(le_i64(d, universe.rest), d, LAMBDA offset :
         load_29(SubSeq(d, offset.rest, Len(d)), offset.val, version.val,
                 universe.val, overflow_checks))
    ELSE LoadErr(VdfrError("UnknownMagic", "None", <<version.val>>))))

(***************************************************************************)
(* find_keys, App::get and App::app_name.  An Option<&Value> is None or    *)
(* Some(value).                                                            *)
(***************************************************************************)
\* kv.get(&key)
HashMapGet(m, k) == IF k \in DOMAIN m THEN Some(m[k]) ELSE None

RECURSIVE find_keys(_, _)
\* a slip: a value that is no map, met before the last key, is returned
find_keys_stops_early(kv, keys) ==
    IF Len(keys) = 0 THEN None
    ELSE With(HashMapGet(kv, Head(keys)), LAMBDA value :
         IF Len(keys) = 1 THEN value
         ELSE IF Len(value) = 1 /\ value[1].kind = "KeyValueType"
              THEN find_keys(value[1].val, Tail(keys))
              ELSE value)

find_keys(kv, keys) ==
    IF Len(keys) = 0 THEN None
    ELSE With(HashMapGet(kv, Head(keys)), LAMBDA value :
         IF Len(keys) = 1 THEN value
         ELSE IF Len(value) = 1 /\ value[1].kind = "KeyValueType"
              THEN find_keys(value[1].val, Tail(keys))
              ELSE None)

App_get(self, keys) == find_keys(self.key_values, keys)

\* "appinfo", "common", "name"
KeyAppinfo == <<97, 112, 112, 105, 110, 102, 111>>

KeyCommon == <<99, 111, 109, 109, 111, 110>>

KeyName == <<110, 97, 109, 101>>

\* a slip: the WideStringType arm left out
app_name_narrow_only(self) ==
    With(App_get(self, <<KeyAppinfo, KeyCommon, KeyName>>), LAMBDA name :
    IF Len(name) = 1 /\ name[1].kind = "StringType"
    THEN Some(name[1].val)
    ELSE None)

app_name(self) ==
    With(App_get(self, <<KeyAppinfo, KeyCommon, KeyName>>), LAMBDA name :
    IF Len(name) = 1 /\ name[1].kind \in {"StringType", "WideStringType"}
    THEN Some(name[1].val)
    ELSE None)

(***************************************************************************)
(* steam.rs: clamp_i32_to_u24 and the shortcuts of a user.                 *)
(***************************************************************************)
\* value as u32: the two 16-bit halves <<high, low>> of the bit pattern
i32_as_u32(value) == << (value \div 65536) % 65536, value % 65536 >>

\* a slip: the value saturated to 0..0x00FFFFFF instead of masked
clamp_i32_to_u24_saturating(value) ==
    IF value < 0 THEN 0 ELSE IF value > 16777215 THEN 16777215 ELSE value

\* (value as u32) & 0x00FF_FFFF: the low 8 bits of the high half and the
\* low half
clamp_i32_to_u24(value) ==
    (i32_as_u32(value)[1] % 256) * 65536 + i32_as_u32(value)[2]

\* "shortcuts", "appid", "AppName"
KeyShortcuts == <<115, 104, 111, 114, 116, 99, 117, 116, 115>>

KeyAppid == <<97, 112, 112, 105, 100>>

KeyAppName == <<65, 112, 112, 78, 97, 109, 101>>

SteamShortcut(id, name) == [id |-> id, name |-> name]

\* a slip: the appid taken as the id without the clamp
shortcut_of_unclamped(shortcut) ==
    IF shortcut.kind # "KeyValueType" THEN None
    ELSE With(HashMapGet(shortcut.val, KeyAppid), LAMBDA id :
         IF ~(Len(id) = 1 /\ id[1].kind = "Int32Type") THEN None
         ELSE With(HashMapGet(shortcut.val, KeyAppName), LAMBDA name :
              IF Len(name) = 1 /\ name[1].kind \in {"StringType", "WideStringType"}
              THEN Some(<<id[1].val, SteamShortcut(id[1].val, name[1].val)>>)
              ELSE None))

\* the closure of filter_map: the (id, SteamShortcut) pair of a child of
\* "shortcuts", or None for a child that is skipped
shortcut_of(shortcut) ==
    IF shortcut.kind # "KeyValueType" THEN None
    ELSE With(HashMapGet(shortcut.val, KeyAppid), LAMBDA id :
         IF ~(Len(id) = 1 /\ id[1].kind = "Int32Type") THEN None
         ELSE With(HashMapGet(shortcut.val, KeyAppName), LAMBDA name :
              IF Len(name) = 1 /\ name[1].kind \in {"StringType", "WideStringType"}
              THEN Some(<<clamp_i32_to_u24(id[1].val),
                          SteamShortcut(clamp_i32_to_u24(id[1].val), name[1].val)>>)
              ELSE None))

\* shortcuts.values().filter_map(..).collect(): the pairs inserted in the
\* order the HashMap yields its values, given as a sequence of its keys
RECURSIVE mapped_shortcuts(_, _, _)
mapped_shortcuts(shortcuts, order, mapped) ==
    IF order = <<>> THEN mapped
    ELSE With(shortcut_of(shortcuts[Head(order)]), LAMBDA pair :
         mapped_shortcuts(shortcuts, Tail(order),
                          IF Len(pair) = 1
                          THEN HashMapInsert(mapped, pair[1][1], pair[1][2])
                          ELSE mapped))

\* the orders in which a HashMap may yield its entries
Orders(m) ==
    {o \in [1..Cardinality(DOMAIN m) -> DOMAIN m] :
        \A i, j \in DOMAIN o : i # j => o[i] # o[j]}

\* the children of "shortcuts" in a decoded tree, an empty map when
\* "shortcuts" is missing or no map
shortcuts_in(kv) ==
    IF KeyShortcuts \in DOMAIN kv /\ kv[KeyShortcuts].kind = "KeyValueType"
    THEN kv[KeyShortcuts].val
    ELSE HashMapNew

\* the arm load_users_shortcuts returns from: the file is missing, its
\* bytes fail to parse, the tree has no map under "shortcuts", or it has
load_users_shortcuts_arm(exists, bytes) ==
    IF ~exists THEN "missing"
    ELSE With(parse_keyvalues(bytes), LAMBDA r :
         IF r.tag # "Ok" THEN "Err"
         ELSE IF KeyShortcuts \in DOMAIN r.val /\ r.val[KeyShortcuts].kind = "KeyValueType"
         THEN "mapped"
         ELSE "no map")

\* load_users_shortcuts, given whether shortcuts.vdf exists, its bytes, and
\* the order in which the children of "shortcuts" are yielded
load_users_shortcuts(exists, bytes, order) ==
    IF ~exists THEN HashMapNew
    ELSE With(parse_keyvalues(bytes), LAMBDA r :
         IF r.tag = "Ok"
         THEN mapped_shortcuts(shortcuts_in(r.val), order, HashMapNew)
         ELSE HashMapNew)

(***************************************************************************)
(* main.rs and routes.rs: the start of the process, which loads the        *)
(* catalog, the users and each user's shortcuts and builds SharedAppState, *)
(* and the request handlers of api_routes, which run concurrently, one     *)
(* step of one request at a time, each step ending at an .await.           *)
(***************************************************************************)
\* 76561197960265728 = 0x0110000100000000, by its limbs
ID64_IDENT == <<272, 1, 0, 0>>

\* a - b on u64 values given by their limbs, modulo 2^64
u64_sub(a, b) ==
    LET b4 == IF a[4] < b[4] THEN 1 ELSE 0
        b3 == IF a[3] < b[3] + b4 THEN 1 ELSE 0
        b2 == IF a[2] < b[2] + b3 THEN 1 ELSE 0
    IN  << (a[1] - b[1] - b2) % 65536, (a[2] - b[2] - b3) % 65536,
           (a[3] - b[3] - b4) % 65536, (a[4] - b[4]) % 65536 >>

\* steamid64 - ID64_IDENT; the ids of loginusers.vdf are those of individual
\* accounts, none below ID64_IDENT
steamid64_to_usteamid(steamid64) == u64_sub(steamid64, ID64_IDENT)

LoginUser(username, display_name, timestamp) ==
    [username |-> username, display_name |-> display_name, timestamp |-> timestamp]

\* get_steam_users on the decoded loginusers.vdf, None when the file is
\* missing
get_steam_users(login_users) ==
    IF login_users = None THEN HashMapNew ELSE login_users[1]

\* the AppInfo of a load that returned Ok
AppInfo(loaded) ==
    [version |-> loaded.version, universe |-> loaded.universe, apps |-> loaded.apps]

SharedAppState(app_info, steam_users, users_shortcuts) ==
    [app_info |-> app_info, steam_users |-> steam_users,
     users_shortcuts |-> users_shortcuts]

\* a slip: no entry recorded for a user without shortcuts
users_shortcuts_insert_if_any(users_shortcuts, uid3, shortcuts) ==
    IF shortcuts = HashMapNew THEN users_shortcuts
    ELSE HashMapInsert(users_shortcuts, uid3, shortcuts)

\* users_shortcuts.insert(uid3, shortcuts)
users_shortcuts_insert(users_shortcuts, uid3, shortcuts) ==
    HashMapInsert(users_shortcuts, uid3, shortcuts)

\* a slip: an empty mapping recorded for a user that has no entry
users_shortcuts_get_or_insert(st, id3) ==
    IF id3 \in DOMAIN st.users_shortcuts
    THEN [state |-> st, shortcuts_data |-> Some(st.users_shortcuts[id3])]
    ELSE [state |-> [st EXCEPT !.users_shortcuts =
                        HashMapInsert(st.users_shortcuts, id3, HashMapNew)],
          shortcuts_data |-> Some(HashMapNew)]

\* state.users_shortcuts.get(&id3): the state after the call and the
\* Option the handler unwraps
users_shortcuts_get(st, id3) ==
    [state |-> st, shortcuts_data |-> HashMapGet(st.users_shortcuts, id3)]

\* what a request has read of the shared state so far
NothingSeen == [steam_users |-> None, users_shortcuts |-> None, app_info |-> None]

\* a request in flight: its handler, its path parameters, the .await it
\* stands at, and what it has read
Request(handler, id3, appid, pc, seen) ==
    [handler |-> handler, id3 |-> id3, appid |-> appid, pc |-> pc, seen |-> seen]

NoRequest == Request("none", <<0, 0, 0, 0>>, 0, "idle", NothingSeen)

(***************************************************************************)
(* routes.rs: get_screenshot_folders and get_screenshot_file.  A path is   *)
(* the sequence of its components from the root directory; a file system   *)
(* is the set of its directories and the set of its files, by their        *)
(* canonical paths.                                                        *)
(***************************************************************************)
\* the canonical path of get_steam_root_path()
SteamRoot == <<"home", "steam">>

\* an io::Result<PathBuf>
PathOk(path) == [ok |-> TRUE, path |-> path]

PathErr == [ok |-> FALSE, path |-> <<>>]

RECURSIVE resolve(_, _, _)
\* the components walked from the directory cur: ".." goes to the parent
\* (the root is its own parent), a name to an entry that must exist, and
\* nothing is walked through a file
resolve(fs, cur, comps) ==
    IF comps = <<>> THEN PathOk(cur)
    ELSE IF cur \in fs.files THEN PathErr
    ELSE IF Head(comps) = ".."
    THEN resolve(fs, SubSeq(cur, 1, Len(cur) - 1), Tail(comps))
    ELSE IF Append(cur, Head(comps)) \notin fs.dirs \cup fs.files THEN PathErr
    ELSE resolve(fs, Append(cur, Head(comps)), Tail(comps))

\* dunce::canonicalize(path) of an absolute path
canonicalize(fs, path) == resolve(fs, <<>>, path)

\* base.join(path): an absolute path replaces the base
join(base, path) == IF path.absolute THEN path.comps ELSE base \o path.comps

\* path.starts_with(base), component by component
starts_with(path, base) ==
    Len(base) <= Len(path) /\ SubSeq(path, 1, Len(base)) = base

\* an anyhow::Result<PathBuf> of get_screenshot_folders
get_screenshot_folders(fs, id3, appid) ==
    With(canonicalize(fs, SteamRoot \o <<"userdata", ToString(id3)>>), LAMBDA user_folder :
    IF ~user_folder.ok THEN PathErr
    ELSE IF ~starts_with(user_folder.path, SteamRoot) THEN PathErr
    ELSE IF user_folder.path \o <<"760", "remote">> \notin fs.dirs \cup fs.files
    THEN PathErr
    ELSE
    With(canonicalize(fs, user_folder.path
                          \o <<"760", "remote", ToString(appid), "screenshots">>),
         LAMBDA screenshots_folder :
    IF ~screenshots_folder.ok THEN PathErr
    ELSE IF ~starts_with(screenshots_folder.path, SteamRoot) THEN PathErr
    ELSE screenshots_folder))

\* the response of a handler: a status, and the path of the file whose
\* bytes are the body, if any; or the panic of its task
Response(status, file) == [tag |-> "Response", status |-> status, file |-> file]

HandlerPanic == [tag |-> "Panic", status |-> 0, file |-> None]

\* File::open of a directory succeeds where the server runs (Linux), and
\* the first read of the stream fails: status 200 and no body
get_screenshot_file(fs, id3, appid, filename) ==
    With(get_screenshot_folders(fs, id3, appid), LAMBDA screenshots_folder :
    IF ~screenshots_folder.ok THEN Response(403, None)
    ELSE
    With(canonicalize(fs, join(screenshots_folder.path, filename)), LAMBDA file_path :
    IF ~file_path.ok THEN HandlerPanic
    ELSE IF ~starts_with(file_path.path, SteamRoot) THEN Response(403, None)
    ELSE IF file_path.path \notin fs.dirs \cup fs.files THEN Response(404, None)
    ELSE IF file_path.path \in fs.dirs THEN Response(200, None)
    ELSE Response(200, Some(file_path.path))))

(***************************************************************************)
(* Inputs.  The writers below build the byte strings the readers are       *)
(* applied to; src records what an input was built from.                   *)
(***************************************************************************)
\* little-endian bytes of a 32-bit pattern
EncU32(n) ==
    << n % 256, (n \div 256) % 256, (n \div 65536) % 256,
       (n \div 16777216) % 256 >>

EncU16Le(u) == << u % 256, u \div 256 >>

EncU16Be(u) == << u \div 256, u % 256 >>

\* little-endian bytes of a 64-bit value given by its limbs
EncU64(w) ==
    EncU16Le(w[4]) \o EncU16Le(w[3]) \o EncU16Le(w[2]) \o EncU16Le(w[1])

\* UTF-8 of one scalar value
EncUtf8Char(c) ==
    IF c < 128 THEN <<c>>
    ELSE IF c < 2048 THEN << 192 + (c \div 64), 128 + (c % 64) >>
    ELSE IF c < 65536
         THEN << 224 + (c \div 4096), 128 + ((c \div 64) % 64), 128 + (c % 64) >>
    ELSE << 240 + (c \div 262144), 128 + ((c \div 4096) % 64),
            128 + ((c \div 64) % 64), 128 + (c % 64) >>

EncUtf8(chars) == Flatten([i \in DOMAIN chars |-> EncUtf8Char(chars[i])])

\* a NUL-terminated UTF-8 string
EncCStr(chars) == Append(EncUtf8(chars), 0)

\* UTF-16 code units of one scalar value
EncUtf16Char(c) ==
    IF c < 65536 THEN <<c>>
    ELSE << 55296 + ((c - 65536) \div 1024), 56320 + ((c - 65536) % 1024) >>

EncUtf16(chars) == Flatten([i \in DOMAIN chars |-> EncUtf16Char(chars[i])])

\* a wide string of the given code units: bom is "None" (big-endian, no BOM),
\* "Be" (FE FF) or "Le" (FF FE); closed by a NUL code unit
EncWide(units, bom) ==
    (IF bom = "Be" THEN <<254, 255>> ELSE IF bom = "Le" THEN <<255, 254>> ELSE <<>>)
    \o Flatten([i \in DOMAIN units |->
                  IF bom = "Le" THEN EncU16Le(units[i]) ELSE EncU16Be(units[i])])
    \o <<0, 0>>

(***************************************************************************)
(* Key-value trees to encode.  A tree is a sequence of entries             *)
(* [key, kind, val, bom, sub]: val holds the numbers of the value (the one *)
(* 32-bit pattern, the four limbs of a 64-bit value, the scalar values of  *)
(* a string's text), bom is how a WideString is written, and sub holds the *)
(* entries of a nested map.  EncKV writes a tree with the inline-key rules *)
(* of versions 27 and 28; TreeOf is the map the tree denotes.              *)
(***************************************************************************)
MaxDepth == 1

Entry(key, kind, val, bom, sub) ==
    [key |-> key, kind |-> kind, val |-> val, bom |-> bom, sub |-> sub]

Scalar(kind, val) == [kind |-> kind, val |-> val, bom |-> "None"]

WideScalar(val, bom) == [kind |-> "WideStringType", val |-> val, bom |-> bom]

TagOf(kind) ==
    CASE kind = "KeyValueType" -> BIN_NONE
      [] kind = "StringType" -> BIN_STRING
      [] kind = "Int32Type" -> BIN_INT32
      [] kind = "Float32Type" -> BIN_FLOAT32
      [] kind = "PointerType" -> BIN_POINTER
      [] kind = "WideStringType" -> BIN_WIDESTRING
      [] kind = "ColorType" -> BIN_COLOR
      [] kind = "UInt64Type" -> BIN_UINT64
      [] kind = "Int64Type" -> BIN_INT64

RECURSIVE EncKV(_)
RECURSIVE EncEntry(_)

EncEntry(e) ==
    <<TagOf(e.kind)>> \o EncCStr(e.key) \o
    (IF e.kind = "KeyValueType" THEN EncKV(e.sub)
     ELSE IF e.kind = "StringType" THEN EncCStr(e.val)
     ELSE IF e.kind = "WideStringType" THEN EncWide(EncUtf16(e.val), e.bom)
     ELSE IF e.kind \in {"UInt64Type", "Int64Type"} THEN EncU64(e.val)
     ELSE EncU32(e.val[1]))

\* the entries of a map, without the byte that closes it
EncEntries(entries) == Flatten([i \in DOMAIN entries |-> EncEntry(entries[i])])

EncKV(entries) == Append(EncEntries(entries), BIN_END)

RECURSIVE TreeOf(_)
TreeOf(entries) ==
    [k \in {entries[i].key : i \in DOMAIN entries} |->
        LET last == CHOOSE i \in DOMAIN entries :
                       /\ entries[i].key = k
                       /\ \A j \in DOMAIN entries : entries[j].key = k => j <= i
            e == entries[last] IN
        Value(e.kind,
              IF e.kind = "KeyValueType" THEN TreeOf(e.sub)
              ELSE IF e.kind \in {"Int32Type", "PointerType", "ColorType",
                                  "Float32Type"} THEN e.val[1]
              ELSE e.val)]

\* "a", "b", "hi"
KeyA == <<97>>

KeyB == <<98>>

Keys == {KeyA, KeyB}

TextHi == <<104, 105>>

\* one or two values of each of the eight scalar kinds: 5 and -1; 1.5 as an
\* f32; 2^16 + 7 and -2 as 64-bit values; "hi", "" and U+00E9; "A", "" and
\* U+1F600 as wide strings in the three encodings
Scalars ==
    { Scalar("Int32Type", <<5>>), Scalar("Int32Type", <<-1>>),
      Scalar("PointerType", <<7>>), Scalar("ColorType", <<16711935>>),
      Scalar("Float32Type", <<1069547520>>),
      Scalar("UInt64Type", <<0, 0, 1, 7>>),
      Scalar("Int64Type", <<65535, 65535, 65535, 65534>>),
      Scalar("StringType", TextHi), Scalar("StringType", <<>>),
      Scalar("StringType", <<233>>),
      WideScalar(<<65>>, "None"), WideScalar(<<65>>, "Le"),
      WideScalar(<<>>, "Be"), WideScalar(<<128512>>, "None") }

Int5 == Scalar("Int32Type", <<5>>)

Leaf(key, s) == Entry(key, s.kind, s.val, s.bom, <<>>)

Node(key, entries) == Entry(key, "KeyValueType", <<>>, "None", entries)

FlatTrees ==
    {<<>>}
    \cup {<<Leaf(k, s)>> : k \in Keys, s \in Scalars}
    \cup {<<Leaf(KeyA, s), Leaf(KeyB, t)>> : s \in Scalars, t \in Scalars}

\* the trees nested at most depth maps deep: a tree, a tree under a key, and
\* a tree under a key followed by a scalar
RECURSIVE Trees(_)
Trees(depth) ==
    IF depth = 0 THEN FlatTrees
    ELSE LET inner == Trees(depth - 1) IN
         inner
         \cup {<<Node(k, t)>> : k \in Keys, t \in inner}
         \cup {<<Node(KeyA, t), Leaf(KeyB, Int5)>> : t \in inner}

KvSources == {[class |-> "kv", tree |-> t] : t \in Trees(MaxDepth)}

(***************************************************************************)
(* Key-value streams in which a key occurs more than once: twice in one    *)
(* map (next to each other, with another key between, with a change of     *)
(* kind), in a nested map, and once at each of two levels.                 *)
(***************************************************************************)
\* 5, -1, "hi", the wide string "A" written big-endian after a BOM (a
\* little-endian "A" ends in a zero byte, and parse_utf16 then cuts it short)
DupScalars ==
    { Int5, Scalar("Int32Type", <<-1>>), Scalar("StringType", TextHi),
      WideScalar(<<65>>, "Be") }

DupTrees ==
    {<<Leaf(k, s), Leaf(k, t)>> : k \in Keys, s \in DupScalars, t \in DupScalars}
    \cup {<<Leaf(KeyA, s), Leaf(KeyB, Int5), Leaf(KeyA, t)>> :
             s \in DupScalars, t \in DupScalars}
    \cup {<<Leaf(KeyA, s), Node(KeyA, <<Leaf(KeyA, t)>>)>> :
             s \in DupScalars, t \in DupScalars}
    \cup {<<Node(KeyA, <<Leaf(KeyB, s)>>), Leaf(KeyA, t)>> :
             s \in DupScalars, t \in DupScalars}
    \cup {<<Node(KeyB, <<Leaf(KeyA, s), Leaf(KeyA, t)>>), Leaf(KeyA, Int5)>> :
             s \in DupScalars, t \in DupScalars}
    \cup {<<Leaf(KeyA, s), Node(KeyB, <<Leaf(KeyA, t)>>)>> :
             s \in DupScalars, t \in DupScalars}

DupSources == {[class |-> "dup", tree |-> t] : t \in DupTrees}

(***************************************************************************)
(* Malformed key-value streams.                                            *)
(***************************************************************************)
\* bytes that are no value tag and not the terminator 0x08
BadTags == {9, 11, 12, 255}

\* what may follow a rejected tag byte: nothing, a key, a key and a payload,
\* a key with no NUL, the terminator
FollowBytes ==
    { <<>>, <<0>>, <<97>>, <<97, 0>>, <<97, 0, 8>>, <<97, 0, 5, 0, 0, 0, 8>>,
      <<8>> }

\* the entries read before the rejected tag
BadTagPrefixes == {<<>>, <<Leaf(KeyA, Int5)>>,
                   <<Leaf(KeyB, Scalar("StringType", TextHi))>>}

\* a stream with a rejected tag at a type position, of the top-level map or
\* (nested) of a map under key "a"
BadTagSources ==
    {[class |-> "badtag", tree |-> pre, tag |-> t, follow |-> f, nested |-> n] :
        pre \in BadTagPrefixes, t \in BadTags, f \in FollowBytes,
        n \in BOOLEAN}

BadTagBytes(s) ==
    (IF s.nested THEN <<BIN_NONE>> \o EncCStr(KeyA) ELSE <<>>)
    \o EncEntries(s.tree) \o <<s.tag>> \o s.follow

\* NUL-free byte strings that are not UTF-8: a byte that starts nothing, a
\* sequence cut short, an overlong form, a surrogate
BadUtf8 == {<<255>>, <<195>>, <<97, 192, 128>>, <<237, 160, 128>>, <<104, 255, 105>>}

\* a one-entry map whose key (an Int32 entry) or whose String value is such
\* a byte string, alone or after a well-formed entry
BadUtf8Sources ==
    {[class |-> "badutf8", where |-> w, bytes |-> b, tree |-> pre] :
        w \in {"key", "value"}, b \in BadUtf8, pre \in BadTagPrefixes}

BadUtf8Bytes(s) ==
    EncEntries(s.tree) \o
    (IF s.where = "key"
     THEN <<BIN_INT32>> \o Append(s.bytes, 0) \o EncU32(5)
     ELSE <<BIN_STRING>> \o EncCStr(KeyA) \o Append(s.bytes, 0))
    \o <<BIN_END>>

(***************************************************************************)
(* Streams cut short: the first bytes of the encoding of a tree, the end   *)
(* of input coming before the byte that closes the top-level map.          *)
(***************************************************************************)
\* an Int32 entry; a nested map followed by an entry; a wide string of the
\* code units U+4100, U+0008 without a byte-order mark
CutTrees ==
    { <<Leaf(KeyA, Int5)>>,
      <<Node(KeyA, <<Leaf(KeyB, Scalar("StringType", TextHi))>>), Leaf(KeyB, Int5)>>,
      <<Leaf(KeyA, WideScalar(<<16640, 8>>, "None"))>> }

CutSources ==
    UNION {{[class |-> "cut", tree |-> t, cut |-> n] :
               n \in 0..(Len(EncKV(t)) - 1)} : t \in CutTrees}

CutBytes(s) == SubSeq(EncKV(s.tree), 1, s.cut)

(***************************************************************************)
(* Wide-string payloads: up to MaxUnits non-NUL code units, written in one *)
(* of the three encodings, followed by the bytes of the rest of a stream.  *)
(***************************************************************************)
MaxUnits == 2

\* U+0041, U+4100, U+3042, a high and a low surrogate, U+0100
WideUnits == {65, 16640, 12354, 55357, 56832, 256}

WideSources ==
    {[class |-> "wide", units |-> u, bom |-> b, tail |-> t] :
        u \in SeqsUpTo(WideUnits, MaxUnits), b \in {"None", "Be", "Le"},
        t \in {<<>>, <<8>>, <<0, 8>>}}

WideBytes(s) == EncWide(s.units, s.bom) \o s.tail

(***************************************************************************)
(* appinfo.vdf files: a header, up to MaxApps items (app records, whole or *)
(* faulty, and terminators), an optional closing terminator and, for       *)
(* version 29, the string pool the header's offset points at.              *)
(***************************************************************************)
MaxApps == 2

Item(kind, id, body) == [item |-> kind, id |-> id, body |-> body]

\* the terminator: a record id of 0
EndItem == Item("end", 0, <<>>)

\* the metadata of a record, each field with a value of its own
RecordBytes(version, id, body) ==
    EncU32(id) \o EncU32(17) \o EncU32(34) \o EncU32(51)
    \o EncU64(<<0, 0, 0, 68>>) \o [i \in 1..20 |-> 160 + i] \o EncU32(85)
    \o (IF version = MAGIC_27 THEN <<>> ELSE [i \in 1..20 |-> 192 + i])
    \o body

ItemBytes(version, it) ==
    IF it.item = "end" THEN EncU32(0)
    ELSE IF it.item = "truncated"
         THEN SubSeq(RecordBytes(version, it.id, it.body), 1, 30)
    ELSE RecordBytes(version, it.id, it.body)

\* key-value bodies with inline keys: {}, {a: 5}, {a: {b: "hi"}}
InlineBodies ==
    { EncKV(<<>>), EncKV(<<Leaf(KeyA, Int5)>>),
      EncKV(<<Node(KeyA, <<Leaf(KeyB, Scalar("StringType", TextHi))>>)>>) }

\* key-value bodies with pool-indexed keys, for a pool of n >= 1 strings:
\* {}, {pool[0]: 5}, {pool[0]: {pool[n-1]: "hi"}}
IndexBodies(n) ==
    { <<BIN_END>>,
      <<BIN_INT32>> \o EncU32(0) \o EncU32(5) \o <<BIN_END>>,
      <<BIN_NONE>> \o EncU32(0)
         \o <<BIN_STRING>> \o EncU32(n - 1) \o EncCStr(TextHi) \o <<BIN_END>>
         \o <<BIN_END>> }

\* faulty records (all of id 3): cut short after 30 bytes; a type byte that is no tag; a
\* String value that is not UTF-8; a String value with no NUL; for a pool of
\* n strings, the key index n; all but the first after a well-formed entry
InlineFaults ==
    { Item("truncated", 3, <<BIN_END>>),
      Item("badtype", 3,
           EncEntries(<<Leaf(KeyA, Int5)>>)
              \o <<9>> \o EncCStr(KeyB) \o <<BIN_END>>),
      Item("badstring", 3,
           EncEntries(<<Leaf(KeyA, Int5)>>)
              \o <<BIN_STRING>> \o EncCStr(KeyB) \o <<255, 0>> \o <<BIN_END>>) }

IndexFaults(n) ==
    { Item("truncated", 3, <<BIN_END>>),
      Item("badtype", 3,
           <<BIN_INT32>> \o EncU32(0) \o EncU32(5)
              \o <<9>> \o EncU32(0) \o <<BIN_END>>),
      Item("badindex", 3,
           <<BIN_INT32>> \o EncU32(0) \o EncU32(5)
              \o <<BIN_INT32>> \o EncU32(n) \o EncU32(5) \o <<BIN_END>>) }

RecordIds == {1, 2}

\* pools of 0, 1 and 2 strings, and a pool whose string is not UTF-8; a pool
\* entry is given by its bytes
PoolNone == <<>>

Pools == {<<>>, <<KeyA>>, <<KeyA, KeyB>>}

BadPool == <<<<255>>>>

\* the items of a file of the given version and pool: with an empty pool
\* the bodies carry inline keys
ItemsOf(version, pool) ==
    IF version # MAGIC_29 \/ pool = <<>>
    THEN {Item("record", id, b) : id \in RecordIds, b \in InlineBodies}
         \cup InlineFaults \cup {EndItem}
    ELSE {Item("record", id, b) : id \in RecordIds, b \in IndexBodies(Len(pool))}
         \cup IndexFaults(Len(pool)) \cup {EndItem}

FileSrc(version, pool, items, term) ==
    [class |-> "appinfo", version |-> version, universe |-> 1, pool |-> pool,
     items |-> items, term |-> term]

\* a header of another universe, the terminator, and the empty pool
EmptyFile(version, universe) ==
    [FileSrc(version, PoolNone, <<>>, TRUE) EXCEPT !.universe = universe]

FileSources ==
    UNION {
      {FileSrc(v, PoolNone, its, t) :
          its \in SeqsUpTo(ItemsOf(v, PoolNone), MaxApps), t \in BOOLEAN}
      : v \in {MAGIC_27, MAGIC_28} }
    \cup UNION {
      {FileSrc(MAGIC_29, p, its, t) :
          its \in SeqsUpTo(ItemsOf(MAGIC_29, p), MaxApps), t \in BOOLEAN}
      : p \in Pools }
    \cup {FileSrc(MAGIC_29, BadPool, its, TRUE) :
             its \in {<<>>, <<Item("record", 1, <<BIN_END>>)>>}}
    \cup {EmptyFile(v, u) : v \in {MAGIC_27, MAGIC_28, MAGIC_29}, u \in {0, 3}}

PayloadBytes(s) ==
    Flatten([i \in DOMAIN s.items |-> ItemBytes(s.version, s.items[i])])
    \o (IF s.term THEN EncU32(0) ELSE <<>>)

PoolBytes(pool) ==
    EncU32(Len(pool)) \o Flatten([i \in DOMAIN pool |-> Append(pool[i], 0)])

FileBytes(s) ==
    LET payload == PayloadBytes(s) IN
    EncU32(s.version) \o EncU32(s.universe)
    \o (IF s.version = MAGIC_29
        THEN EncU64(<<0, 0, 0, 16 + Len(payload)>>) \o payload
                \o PoolBytes(s.pool)
        ELSE payload)

(***************************************************************************)
(* Version-29 files by their pool offset: a payload of records, the count  *)
(* of the pool, its strings and the bytes after them, under an offset that *)
(* points at the count, before it, after it, or nowhere in the file.       *)
(***************************************************************************)
\* a record of the given id whose map is {pool[0]: 5}, and one of an empty map
IndexedRecord(id) ==
    Item("record", id, <<BIN_INT32>> \o EncU32(0) \o EncU32(5) \o <<BIN_END>>)

EmptyRecord(id) == Item("record", id, <<BIN_END>>)

PoolBase(items, count, pool, after) ==
    [items |-> items, count |-> count, pool |-> pool, after |-> after]

\* a record and a pool of one string; the same with a record after the
\* pool; a count of 2 over one string; a count of 1 over two strings; a
\* string that is not UTF-8; no pool strings and a record after the count;
\* nothing but the count
PoolBases ==
    { PoolBase(<<IndexedRecord(1)>>, 1, <<KeyA>>, <<>>),
      PoolBase(<<IndexedRecord(1)>>, 1, <<KeyA>>,
               RecordBytes(MAGIC_29, 2, <<BIN_END>>)),
      PoolBase(<<IndexedRecord(1)>>, 2, <<KeyA>>, <<>>),
      PoolBase(<<IndexedRecord(1)>>, 1, <<KeyA, KeyB>>, <<>>),
      PoolBase(<<IndexedRecord(1)>>, 1, <<<<255>>>>, <<>>),
      PoolBase(<<EmptyRecord(1)>>, 0, <<>>, RecordBytes(MAGIC_29, 2, <<BIN_END>>)),
      PoolBase(<<>>, 0, <<>>, <<>>) }

\* the bytes after the 16 bytes of the header
BodyBytes(b) ==
    Flatten([i \in DOMAIN b.items |-> ItemBytes(MAGIC_29, b.items[i])])
    \o EncU32(b.count) \o Flatten([i \in DOMAIN b.pool |-> Append(b.pool[i], 0)])
    \o b.after

\* where the count of the pool stands in the file
CountOffset(b) ==
    16 + Len(Flatten([i \in DOMAIN b.items |-> ItemBytes(MAGIC_29, b.items[i])]))

\* an i64 below 2^16 by its limbs
SmallOffset(n) == <<0, 0, 0, n>>

\* the offsets of a file: that of the count; 16; the last that leaves four
\* bytes, and the three after it; the file length + 1; 0 and 15; -1 and
\* i64::MIN; 2^31; 2^32 + the offset of the count
OffsetsOf(b) ==
    {SmallOffset(n) : n \in {CountOffset(b), 16, 0, 15}
                            \cup ((12 + Len(BodyBytes(b)))..(17 + Len(BodyBytes(b))))}
    \cup { <<65535, 65535, 65535, 65535>>, <<32768, 0, 0, 0>>, <<0, 0, 32768, 0>>,
           <<0, 1, 0, CountOffset(b)>> }

OffsetSources ==
    UNION {
      {[class |-> "offset", items |-> b.items, count |-> b.count, pool |-> b.pool,
        after |-> b.after, offset |-> o] : o \in OffsetsOf(b)}
      : b \in PoolBases }

OffsetFileBytes(s) ==
    EncU32(MAGIC_29) \o EncU32(1) \o EncU64(s.offset) \o BodyBytes(s)

(***************************************************************************)
(* Single records of each version, each followed by the bytes of the rest  *)
(* of a stream: inline keys for versions 27 and 28, keys of a pool of one  *)
(* string for version 29.                                                  *)
(***************************************************************************)
RecordSources ==
    {[class |-> "record", version |-> v, id |-> id, body |-> b, pool |-> <<>>,
      tail |-> t] :
        v \in {MAGIC_27, MAGIC_28}, id \in RecordIds, b \in InlineBodies,
        t \in {<<>>, <<0, 8>>}}
    \cup {[class |-> "record", version |-> MAGIC_29, id |-> id, body |-> b,
           pool |-> <<KeyA>>, tail |-> t] :
             id \in RecordIds, b \in IndexBodies(1), t \in {<<>>, <<0, 8>>}}

RecordSourceBytes(s) == RecordBytes(s.version, s.id, s.body) \o s.tail

(***************************************************************************)
(* Headers: a magic, known or not, and up to MaxExtra zero bytes after it. *)
(***************************************************************************)
MaxExtra == 12

\* 0x07564426, 0x0756442A, 0xFFFFFFFF, 0
UnknownMagics == {123094054, 123094058, -1, 0}

HeaderSources ==
    {[class |-> "header", magic |-> m, extra |-> n] :
        m \in UnknownMagics \cup {MAGIC_27, MAGIC_28, MAGIC_29},
        n \in 0..MaxExtra}

HeaderBytes(s) == EncU32(s.magic) \o Zeros(s.extra)

(***************************************************************************)
(* Apps to look keys up in: key-value maps up to three maps deep along     *)
(* "appinfo" / "common" / "name", with maps and scalars of several kinds   *)
(* at every step, and key paths of up to MaxPath keys.                     *)
(***************************************************************************)
MaxPath == 3

\* "hi", the wide string "A", the Int32 5
LookupScalars == {Scalar("StringType", TextHi), WideScalar(<<65>>, "None"), Int5}

\* the maps one step above inner: empty; key as a map of inner; key as a
\* scalar; another key as a map of inner; key as a map, after another entry
Level(key, inner) ==
    {<<>>}
    \cup {<<Node(key, t)>> : t \in inner}
    \cup {<<Leaf(key, s)>> : s \in LookupScalars}
    \cup {<<Node(KeyA, t)>> : t \in inner}
    \cup {<<Leaf(KeyA, Int5), Node(key, t)>> : t \in inner}

LookupTrees == Level(KeyAppinfo, Level(KeyCommon, Level(KeyName, {<<>>})))

LookupKeys == {KeyAppinfo, KeyCommon, KeyName}

\* an App whose key_values is the map a tree denotes
AppOf(tree) == App(1, 17, 34, 51, <<0, 0, 0, 68>>, Zeros(20), None, 85, TreeOf(tree))

GetSources ==
    {[class |-> "get", tree |-> t, path |-> p] :
        t \in LookupTrees, p \in SeqsUpTo(LookupKeys, MaxPath)}

NameSources == {[class |-> "name", tree |-> t] : t \in LookupTrees}

(***************************************************************************)
(* i32 values to clamp: each of a few low 24 bits under each of a few high *)
(* bytes, from i32::MIN to i32::MAX, and the value of the unit test.       *)
(***************************************************************************)
ClampHighBytes == {-128, -72, -2, -1, 0, 1, 2, 71, 127}

ClampLowBits == {0, 1, 5, 65536, 12509892, 16777215}

ClampValues ==
    {h * 16777216 + l : h \in ClampHighBytes, l \in ClampLowBits}
    \cup {-1195449660}

ClampSources == {[class |-> "clamp", value |-> v] : v \in ClampValues}

(***************************************************************************)
(* shortcuts.vdf files: up to MaxShortcuts children "0", "1", ... under    *)
(* "shortcuts", each a shortcut with or without a well-typed appid and     *)
(* AppName, or no map at all; and files with no map under "shortcuts".     *)
(***************************************************************************)
MaxShortcuts == 2

\* a shortcut: appid and AppName
Shortcut(appid, name) ==
    <<Leaf(KeyAppid, Scalar("Int32Type", <<appid>>)), Leaf(KeyAppName, name)>>

\* the entries of a child: a shortcut with both fields (appid 5 with two
\* names; 5 + 2^24, with the same low 24 bits; the value of the unit test,
\* with a wide name); one with a field of another kind; one with a field
\* missing
ShortcutBodies ==
    { Shortcut(5, Scalar("StringType", TextHi)),
      Shortcut(5, Scalar("StringType", KeyA)),
      Shortcut(16777221, Scalar("StringType", KeyB)),
      Shortcut(-1195449660, WideScalar(<<65>>, "Be")),
      <<Leaf(KeyAppid, Scalar("StringType", TextHi)),
        Leaf(KeyAppName, Scalar("StringType", TextHi))>>,
      <<Leaf(KeyAppid, Int5), Leaf(KeyAppName, Int5)>>,
      <<Leaf(KeyAppid, Int5)>>,
      <<Leaf(KeyAppName, Scalar("StringType", TextHi))>> }

\* child number i under key "0", "1", ...: a map, or the Int32 5
ChildrenAt(i) ==
    {Node(<<47 + i>>, b) : b \in ShortcutBodies} \cup {Leaf(<<47 + i>>, Int5)}

ChildLists ==
    UNION {{c \in [1..n -> UNION {ChildrenAt(i) : i \in 1..n}] :
               \A i \in 1..n : c[i] \in ChildrenAt(i)} : n \in 0..MaxShortcuts}

ShortcutTrees ==
    {<<Node(KeyShortcuts, c)>> : c \in ChildLists}
    \cup {<<>>, <<Leaf(KeyShortcuts, Int5)>>, <<Node(KeyA, <<>>)>>}

ShortcutSources == {[class |-> "shortcuts", tree |-> t] : t \in ShortcutTrees}

(***************************************************************************)
(* File systems and file requests: the Steam folder of one user (id3 9)    *)
(* with screenshots of app 1 and, in one of the two, of app 2; the         *)
(* configuration of Steam; a file outside the Steam folder.                *)
(***************************************************************************)
\* every directory on the way to each of the paths, the root included
DirsTo(paths) == UNION {{SubSeq(p, 1, n) : n \in 0..(Len(p) - 1)} : p \in paths}

FileSystem(files) == [dirs |-> DirsTo(files), files |-> files]

RemoteOf9 == SteamRoot \o <<"userdata", "9", "760", "remote">>

BaseFiles ==
    { RemoteOf9 \o <<"1", "screenshots", "a.jpg">>,
      RemoteOf9 \o <<"1", "screenshots", "thumbnails", "a.jpg">>,
      SteamRoot \o <<"config", "loginusers.vdf">>,
      <<"home", "notes.txt">> }

FileSystems ==
    { FileSystem(BaseFiles),
      FileSystem(BaseFiles \cup {RemoteOf9 \o <<"2", "screenshots", "b.jpg">>}) }

Relative(comps) == [absolute |-> FALSE, comps |-> comps]

\* the filename of a request, percent-decoded: a file of the folder, one
\* that does not exist, one reached through a subfolder and back, the
\* folder itself, a file of another app, of the Steam configuration, and
\* one outside the Steam folder, by a relative and by an absolute path
Filenames ==
    { Relative(<<"a.jpg">>),
      Relative(<<"b.jpg">>),
      Relative(<<"thumbnails", "..", "a.jpg">>),
      Relative(<<"thumbnails", "a.jpg">>),
      Relative(<<"a.jpg", "..">>),
      Relative(<<"..">>),
      Relative(<<"..", "..", "2", "screenshots", "b.jpg">>),
      Relative(<<"..", "..", "..", "..", "..", "..", "config", "loginusers.vdf">>),
      Relative(<<"..", "..", "..", "..", "..", "..", "..", "notes.txt">>),
      [absolute |-> TRUE, comps |-> <<"home", "notes.txt">>] }

FileRequestSources ==
    {[class |-> "file", fs |-> fs, id3 |-> u, appid |-> a, filename |-> f] :
        fs \in FileSystems, u \in {9, 7}, a \in {1, 2}, f \in Filenames}

(***************************************************************************)
(* Disks to start the process on: appinfo.vdf missing, refused or loaded;  *)
(* loginusers.vdf missing or naming up to two users; each user's           *)
(* shortcuts.vdf missing, holding a shortcut, failing to parse, or parsing *)
(* to a tree with no map under "shortcuts".  And the requests that arrive: *)
(* up to MaxRequests at a time, for a user of loginusers.vdf and for an    *)
(* id3 that is none.                                                       *)
(***************************************************************************)
MaxRequests == 2

\* a whole version-28 file of one app, and a file of an unknown magic
AppinfoFiles ==
    { None,
      Some(FileBytes(FileSrc(MAGIC_28, PoolNone,
                             <<Item("record", 1, <<BIN_END>>)>>, TRUE))),
      Some(EncU32(0) \o Zeros(4)) }

\* 76561197960265729 and 76561197960265730
UserIds == {<<272, 1, 0, 1>>, <<272, 1, 0, 2>>}

UserA == <<272, 1, 0, 1>>

LoginUsers ==
    { None,
      Some([u \in {UserA} |-> LoginUser(KeyA, TextHi, 7)]),
      Some([u \in UserIds |-> LoginUser(KeyA, TextHi, 7)]) }

\* a shortcuts.vdf with one shortcut of appid 5
GoodShortcutsVdf ==
    EncKV(<<Node(KeyShortcuts,
                 <<Node(<<48>>, Shortcut(5, Scalar("StringType", TextHi)))>>)>>)

\* one that ends before its map is closed, one with a type byte that is
\* none, one with a string under "shortcuts", one without "shortcuts"
UnparsedShortcutsVdfs ==
    { EncEntries(<<Node(KeyShortcuts, <<>>)>>),
      <<9>> \o EncCStr(KeyShortcuts) \o <<BIN_END>> }

NoShortcutsVdfs ==
    { EncKV(<<Leaf(KeyShortcuts, Scalar("StringType", TextHi))>>),
      EncKV(<<Node(KeyA, <<Node(<<48>>, Shortcut(5, Scalar("StringType", TextHi)))>>)>>) }

ShortcutsVdfs ==
    {None, Some(GoodShortcutsVdf)}
    \cup {Some(b) : b \in UnparsedShortcutsVdfs \cup NoShortcutsVdfs}

\* the file of a second user: one that fails to parse
SecondShortcutsVdfs == {Some(EncEntries(<<Node(KeyShortcuts, <<>>)>>))}

\* shortcuts.vdf under userdata/<uid3>/config of each of the users
ShortcutsOf(users) ==
    {s \in [{steamid64_to_usteamid(u) : u \in users} -> ShortcutsVdfs] :
        \A u \in users \ {UserA} :
           s[steamid64_to_usteamid(u)] \in SecondShortcutsVdfs}

\* the disk: appinfo.vdf, the decoded loginusers.vdf, and the users'
\* shortcuts.vdf
Disks ==
    UNION {
      {[appinfo |-> a, login_users |-> l, shortcuts |-> s] :
          a \in AppinfoFiles, s \in ShortcutsOf(DOMAIN get_steam_users(l))}
      : l \in LoginUsers }

\* the id3 of a request: that of UserA, and one of no user
RequestIds == {steamid64_to_usteamid(UserA), <<0, 0, 0, 9>>}

\* the appid of a request: the app of the catalog
RequestAppids == {1}

(***************************************************************************)
(* The state machine: an input is drawn, then one operation reads it.      *)
(***************************************************************************)
NoRet == [tag |-> "None"]

\* the locals of main: where it stands, and what it has loaded so far;
\* branch keeps, for each user, the arm load_users_shortcuts returned from
Main(pc, app_info, steam_users, pending, users_shortcuts, branch) ==
    [pc |-> pc, app_info |-> app_info, steam_users |-> steam_users,
     pending |-> pending, users_shortcuts |-> users_shortcuts, branch |-> branch]

NoDisk == [appinfo |-> None, login_users |-> None, shortcuts |-> HashMapNew]

\* no process: an operation is applied to an input on its own
Offline ==
    /\ disk = NoDisk
    /\ main = Main("off", None, HashMapNew, {}, HashMapNew, HashMapNew)
    /\ shared = None
    /\ requests = [i \in 1..MaxRequests |-> NoRequest]

Start(s, bytes) ==
    /\ src = s
    /\ data = bytes
    /\ call = "none"
    /\ ret = NoRet
    /\ Offline

Init ==
    \/ \E s \in KvSources : Start(s, EncKV(s.tree))
    \/ \E s \in BadTagSources : Start(s, BadTagBytes(s))
    \/ \E s \in BadUtf8Sources : Start(s, BadUtf8Bytes(s))
    \/ \E s \in WideSources : Start(s, WideBytes(s))
    \/ \E s \in FileSources : Start(s, FileBytes(s))
    \/ \E s \in HeaderSources : Start(s, HeaderBytes(s))
    \/ \E s \in OffsetSources : Start(s, OffsetFileBytes(s))
    \/ \E s \in RecordSources : Start(s, RecordSourceBytes(s))
    \/ \E s \in DupSources : Start(s, EncKV(s.tree))
    \/ \E s \in CutSources : Start(s, CutBytes(s))
    \/ \E s \in FileRequestSources : Start(s, <<>>)
    \/ \E s \in GetSources : Start(s, <<>>)
    \/ \E s \in NameSources : Start(s, <<>>)
    \/ \E s \in ClampSources : Start(s, <<>>)
    \/ \E s \in ShortcutSources : Start(s, EncKV(s.tree))

\* AppInfo::load(&data), built with or without overflow checks
CallLoad ==
    /\ call = "none"
    /\ src.class \in {"appinfo", "header", "offset"}
    /\ \E overflow_checks \in BOOLEAN :
          ret' = AppInfo_load(data, overflow_checks)
    /\ call' = "load"
    /\ UNCHANGED <<src, data>>
    /\ UNCHANGED server

\* parse_keyvalues(&data)
CallParseKeyvalues ==
    /\ call = "none"
    /\ src.class \in {"kv", "badtag", "badutf8", "dup", "cut"}
    /\ ret' = parse_keyvalues(data)
    /\ call' = "parse_keyvalues"
    /\ UNCHANGED <<src, data>>
    /\ UNCHANGED server

\* parse_utf16(&data), as parse_bytes_kv calls it on a WideString payload
CallParseUtf16 ==
    /\ call = "none"
    /\ src.class = "wide"
    /\ ret' = parse_utf16(data, 1)
    /\ call' = "parse_utf16"
    /\ UNCHANGED <<src, data>>
    /\ UNCHANGED server

\* app.get(&path), for the App built from the tree
CallGet ==
    /\ call = "none"
    /\ src.class = "get"
    /\ ret' = App_get(AppOf(src.tree), src.path)
    /\ call' = "get"
    /\ UNCHANGED <<src, data>>
    /\ UNCHANGED server

\* app.app_name()
CallParseApp ==
    /\ call = "none"
    /\ src.class = "record"
    /\ ret' = parse_app(data, 1, KeyValueOptions(src.pool, FALSE), src.version)
    /\ call' = "parse_app"
    /\ UNCHANGED <<src, data>>
    /\ UNCHANGED server

\* GET /users/{id3}/{appid}/{filename}
CallGetScreenshotFile ==
    /\ call = "none"
    /\ src.class = "file"
    /\ ret' = get_screenshot_file(src.fs, src.id3, src.appid, src.filename)
    /\ call' = "get_screenshot_file"
    /\ UNCHANGED <<src, data>>
    /\ UNCHANGED server

CallAppName ==
    /\ call = "none"
    /\ src.class = "name"
    /\ ret' = app_name(AppOf(src.tree))
    /\ call' = "app_name"
    /\ UNCHANGED <<src, data>>
    /\ UNCHANGED server

\* clamp_i32_to_u24(value)
CallClamp ==
    /\ call = "none"
    /\ src.class = "clamp"
    /\ ret' = clamp_i32_to_u24(src.value)
    /\ call' = "clamp_i32_to_u24"
    /\ UNCHANGED <<src, data>>
    /\ UNCHANGED server

\* load_users_shortcuts(user_id), for a user whose shortcuts.vdf holds data
CallLoadUsersShortcuts ==
    /\ call = "none"
    /\ src.class = "shortcuts"
    /\ \E order \in Orders(shortcuts_in(parse_keyvalues(data).val)) :
          ret' = load_users_shortcuts(TRUE, data, order)
    /\ call' = "load_users_shortcuts"
    /\ UNCHANGED <<src, data>>
    /\ UNCHANGED server

Next ==
    \/ CallLoadUsersShortcuts
    \/ CallClamp
    \/ CallLoad
    \/ CallParseKeyvalues
    \/ CallParseUtf16
    \/ CallParseApp
    \/ CallGetScreenshotFile
    \/ CallGet
    \/ CallAppName

Spec == Init /\ [][Next]_vars

(***************************************************************************)
(* The process: main up to the serving of requests, and the handlers.      *)
(***************************************************************************)
ServerInit ==
    /\ src = [class |-> "server"]
    /\ data = <<>>
    /\ call = "none"
    /\ ret = NoRet
    /\ disk \in Disks
    /\ main = Main("start", None, HashMapNew, {}, HashMapNew, HashMapNew)
    /\ shared = None
    /\ requests = [i \in 1..MaxRequests |-> NoRequest]

\* appinfo.vdf is read and loaded; the process exits when the file is
\* missing or refused
MainLoadAppInfo ==
    /\ main.pc = "start"
    /\ \E overflow_checks \in BOOLEAN :
          main' =
             IF disk.appinfo = None THEN [main EXCEPT !.pc = "exited"]
             ELSE With(AppInfo_load(disk.appinfo[1], overflow_checks), LAMBDA r :
                  IF r.tag = "Ok"
                  THEN [main EXCEPT !.pc = "load_users", !.app_info = Some(AppInfo(r))]
                  ELSE IF r.tag = "Err" THEN [main EXCEPT !.pc = "exited"]
                  ELSE [main EXCEPT !.pc = "panicked"])
    /\ UNCHANGED <<src, data, call, ret, disk, shared, requests>>

MainLoadUsers ==
    /\ main.pc = "load_users"
    /\ main' = [main EXCEPT !.pc = "load_shortcuts",
                            !.steam_users = get_steam_users(disk.login_users),
                            !.pending = DOMAIN get_steam_users(disk.login_users)]
    /\ UNCHANGED <<src, data, call, ret, disk, shared, requests>>

\* one turn of `for user_id in steam_users.keys()`, the keys coming in any
\* order
MainLoadShortcuts ==
    /\ main.pc = "load_shortcuts"
    /\ \E user_id \in main.pending :
          LET uid3 == steamid64_to_usteamid(user_id)
              file == disk.shortcuts[uid3]
              bytes == IF file = None THEN <<>> ELSE file[1]
          IN  \E order \in Orders(shortcuts_in(parse_keyvalues(bytes).val)) :
                 main' = [main EXCEPT
                            !.pending = @ \ {user_id},
                            !.users_shortcuts =
                                users_shortcuts_insert(@, uid3,
                                    load_users_shortcuts(file # None, bytes, order)),
                            !.branch =
                                HashMapInsert(@, uid3,
                                    load_users_shortcuts_arm(file # None, bytes))]
    /\ UNCHANGED <<src, data, call, ret, disk, shared, requests>>

MainBuildState ==
    /\ main.pc = "load_shortcuts"
    /\ main.pending = {}
    /\ shared' = Some(SharedAppState(main.app_info[1], main.steam_users,
                                    main.users_shortcuts))
    /\ main' = [main EXCEPT !.pc = "serving"]
    /\ UNCHANGED <<src, data, call, ret, disk, requests>>

\* a request arrives and is routed by api_routes
Accept(i) ==
    /\ main.pc = "serving"
    /\ requests[i] = NoRequest
    /\ \/ requests' = [requests EXCEPT ![i] =
                          Request("get_users", <<0, 0, 0, 0>>, 0, "start", NothingSeen)]
       \/ \E id3 \in RequestIds :
             requests' = [requests EXCEPT ![i] =
                            Request("get_screenshot_apps", id3, 0, "start", NothingSeen)]
       \/ \E id3 \in RequestIds, appid \in RequestAppids :
             requests' = [requests EXCEPT ![i] =
                            Request("get_screenshot_app", id3, appid, "start", NothingSeen)]
       \/ \E h \in {"get_screenshot_file", "get_screenshot_file_thumbnail"} :
             requests' = [requests EXCEPT ![i] =
                            Request(h, steamid64_to_usteamid(UserA), 1, "start", NothingSeen)]
    /\ UNCHANGED <<src, data, call, ret, disk, main, shared>>

\* get_users: reads steam_users and answers
GetUsers(i) ==
    /\ requests[i].handler = "get_users"
    /\ requests[i].pc = "start"
    /\ requests' = [requests EXCEPT
                       ![i].pc = "done",
                       ![i].seen.steam_users = Some(shared[1].steam_users)]
    /\ UNCHANGED <<src, data, call, ret, disk, main, shared>>

\* the step of a handler that takes the user's shortcuts out of the shared state
\* and unwraps them
TakeShortcuts(i, next) ==
    With(users_shortcuts_get(shared[1], requests[i].id3), LAMBDA got :
    /\ shared' = Some(got.state)
    /\ requests' = [requests EXCEPT
                       ![i].pc = IF got.shortcuts_data = None THEN "panicked" ELSE next,
                       ![i].seen.users_shortcuts = Some(got.state.users_shortcuts)])

\* get_screenshot_apps: the checks of the folders; the user's shortcuts;
\* the entries of the folder, each looked up in the catalog
GetScreenshotApps(i) ==
    /\ requests[i].handler = "get_screenshot_apps"
    /\ \/ /\ requests[i].pc = "start"
          /\ \E to \in {"checked", "done", "panicked"} :
                requests' = [requests EXCEPT ![i].pc = to]
          /\ UNCHANGED shared
       \/ /\ requests[i].pc = "checked"
          /\ TakeShortcuts(i, "listing")
       \/ /\ requests[i].pc = "listing"
          /\ requests' = [requests EXCEPT
                             ![i].pc = "done",
                             ![i].seen.app_info = Some(shared[1].app_info)]
          /\ UNCHANGED shared
    /\ UNCHANGED <<src, data, call, ret, disk, main>>

\* get_screenshot_app: per_page and get_screenshot_folders; the user's
\* shortcuts and the app of the catalog; the entries of the folder
GetScreenshotApp(i) ==
    /\ requests[i].handler = "get_screenshot_app"
    /\ \/ /\ requests[i].pc = "start"
          /\ \E to \in {"found", "done", "panicked"} :
                requests' = [requests EXCEPT ![i].pc = to]
          /\ UNCHANGED shared
       \/ /\ requests[i].pc = "found"
          /\ With(users_shortcuts_get(shared[1], requests[i].id3), LAMBDA got :
             /\ shared' = Some(got.state)
             /\ requests' = [requests EXCEPT
                   ![i].pc = IF got.shortcuts_data = None THEN "panicked" ELSE "listing",
                   ![i].seen.users_shortcuts = Some(got.state.users_shortcuts),
                   ![i].seen.app_info =
                       IF got.shortcuts_data = None THEN None
                       ELSE Some(got.state.app_info)])
       \/ /\ requests[i].pc = "listing"
          /\ requests' = [requests EXCEPT ![i].pc = "done"]
          /\ UNCHANGED shared
    /\ UNCHANGED <<src, data, call, ret, disk, main>>

\* get_screenshot_file and get_screenshot_file_thumbnail: no State in their
\* parameters; folders and the file are looked at on the disk alone
GetScreenshotFile(i) ==
    /\ requests[i].handler \in {"get_screenshot_file", "get_screenshot_file_thumbnail"}
    /\ requests[i].pc = "start"
    /\ \E to \in {"done", "panicked"} :
          requests' = [requests EXCEPT ![i].pc = to]
    /\ UNCHANGED <<src, data, call, ret, disk, main, shared>>

\* the response is sent, or the panicked task is dropped
Finish(i) ==
    /\ requests[i].pc \in {"done", "panicked"}
    /\ requests' = [requests EXCEPT ![i] = NoRequest]
    /\ UNCHANGED <<src, data, call, ret, disk, main, shared>>

ServerNext ==
    \/ MainLoadAppInfo
    \/ MainLoadUsers
    \/ MainLoadShortcuts
    \/ MainBuildState
    \/ \E i \in 1..MaxRequests :
          \/ Accept(i)
          \/ GetUsers(i)
          \/ GetScreenshotApps(i)
          \/ GetScreenshotApp(i)
          \/ GetScreenshotFile(i)
          \/ Finish(i)

ServerSpec == ServerInit /\ [][ServerNext]_vars

(***************************************************************************)
(* What the inputs say about a run, for the properties below.              *)
(***************************************************************************)
Loaded == call = "load" /\ src.class = "appinfo"

\* item i of the file is a faulty record that parse_app reads from its first
\* byte and cannot decode: every item before it is a well-formed record, and
\* a record cut short is the end of the payload
FaultAt(s, i) ==
    /\ s.items[i].item \notin {"record", "end"}
    /\ \A j \in 1..(i - 1) : s.items[j].item = "record"
    /\ (s.items[i].item = "truncated" => i = Len(s.items) /\ ~s.term)

\* the file holds well-formed records and terminators only
WellFormed(s) == \A i \in DOMAIN s.items : s.items[i].item \in {"record", "end"}

\* the ids of the records written before the first terminator
IdsBeforeTerminator(s) ==
    {s.items[i].id : i \in {j \in DOMAIN s.items :
                              \A k \in 1..j : s.items[k].item = "record"}}

\* the strings of the pool written to the file
PoolStrings(s) == {from_utf8(s.pool[i]).val : i \in DOMAIN s.pool}

\* the keys of a map, at every nesting depth
RECURSIVE KeysOf(_)
KeysOf(kv) ==
    DOMAIN kv \cup
    UNION {KeysOf(kv[k].val) : k \in {x \in DOMAIN kv : kv[x].kind = "KeyValueType"}}

\* two maps hold the same keys with the same values, whatever the key order
RECURSIVE SameTree(_, _)
SameTree(a, b) ==
    /\ DOMAIN a = DOMAIN b
    /\ \A k \in DOMAIN a :
          /\ a[k].kind = b[k].kind
          /\ IF a[k].kind = "KeyValueType" THEN SameTree(a[k].val, b[k].val)
             ELSE a[k].val = b[k].val

NomError(code) == ret.tag = "Err" /\ ret.err.variant = "NomError" /\ ret.err.code = code

\* a child of "shortcuts" is a shortcut: a map with "appid" of kind Int32
\* and "AppName" of kind String or WideString
IsShortcut(c) ==
    /\ c.kind = "KeyValueType"
    /\ KeyAppid \in DOMAIN c.val
    /\ c.val[KeyAppid].kind = "Int32Type"
    /\ KeyAppName \in DOMAIN c.val
    /\ c.val[KeyAppName].kind \in {"StringType", "WideStringType"}

\* the children of "shortcuts" in the tree decoded from the input that are
\* shortcuts
ShortcutsRead ==
    LET children == shortcuts_in(parse_keyvalues(data).val) IN
    {children[k] : k \in {x \in DOMAIN children : IsShortcut(children[x])}}

\* the low 24 bits of a shortcut's appid, and its name
Low24(c) == c.val[KeyAppid].val % 16777216

NameOf(c) == c.val[KeyAppName].val

ShortcutsLoaded == call = "load_users_shortcuts" /\ src.class = "shortcuts"

\* the bytes of a user's shortcuts.vdf failed to parse, or parsed to a tree
\* with no map under "shortcuts"
NoShortcutsRead(uid3) == main.branch[uid3] \in {"Err", "no map"}

\* a version-29 file has been loaded under an offset that addresses a pool
\* inside it: 16 <= offset <= file length - 4
PoolInsideFile ==
    /\ call = "load"
    /\ src.class = "offset"
    /\ src.offset[1] = 0 /\ src.offset[2] = 0 /\ src.offset[3] = 0
    /\ 16 <= src.offset[4]
    /\ src.offset[4] <= Len(data) - 4

\* a version-29 file has been loaded under an offset that addresses no pool
\* inside it: negative, below the 16 bytes of the header, or beyond the
\* length of the file
PoolOutsideFile ==
    /\ call = "load"
    /\ src.class = "offset"
    /\ \/ offset_as_usize(src.offset) < read_amount
       \/ offset_as_usize(src.offset) > Len(data)

\* the count N that stands at offset p of the bytes d; -1 for the counts of
\* 2^31 and more, which no file of the model holds the strings of
CountAt(d, p) ==
    IF d[p + 4] >= 128 THEN -1
    ELSE d[p + 1] + 256 * d[p + 2] + 65536 * d[p + 3] + 16777216 * d[p + 4]

\* the first n NUL-terminated byte strings of d from position q on, as
\* Some(strings); None when d ends before the n-th NUL
RECURSIVE StringsAt(_, _, _)
StringsAt(d, q, n) ==
    IF n = 0 THEN Some(<<>>)
    ELSE IF \A i \in q..Len(d) : d[i] # 0 THEN None
    ELSE LET nul == CHOOSE i \in q..Len(d) :
                       d[i] = 0 /\ \A j \in q..(i - 1) : d[j] # 0
             more == StringsAt(d, nul + 1, n - 1)
         IN  IF more = None THEN None
             ELSE Some(<<SubSeq(d, q, nul - 1)>> \o more[1])

\* the pool of the file: the N strings after the count at the offset, when
\* they are there and are UTF-8
PoolOfFile ==
    LET n == CountAt(data, src.offset[4])
        strings == IF n < 0 THEN None ELSE StringsAt(data, src.offset[4] + 5, n)
    IN  IF strings = None \/ \E i \in DOMAIN strings[1] : ~from_utf8(strings[1][i]).ok
        THEN None
        ELSE Some([i \in DOMAIN strings[1] |-> from_utf8(strings[1][i]).val])

\* parse_app has read a record, and each field of the App is what was
\* written at its place in the order id, size, state, last_update,
\* access_token, checksum_txt, change_number, checksum_bin
RecordParsed == call = "parse_app" /\ src.class = "record"

FieldsInOrder ==
    /\ ret.ok
    /\ ret.val.id = src.id
    /\ ret.val.size = 17
    /\ ret.val.state = 34
    /\ ret.val.last_update = 51
    /\ ret.val.access_token = <<0, 0, 0, 68>>
    /\ ret.val.checksum_txt = [i \in 1..20 |-> 160 + i]
    /\ ret.val.change_number = 85
    /\ ret.val.checksum_bin =
          (IF src.version = MAGIC_27 THEN None ELSE Some([i \in 1..20 |-> 192 + i]))

\* the tree of the App is the one that starts n bytes after the start of
\* the record, and the cursor is left where that tree ends
TreeStartsAt(n) ==
    LET at == parse_bytes_kv(data, n + 1, KeyValueOptions(src.pool, FALSE)) IN
    /\ at.ok
    /\ ret.ok
    /\ SameTree(ret.val.key_values, at.val)
    /\ ret.rest = at.rest
    /\ ret.rest = Len(data) - Len(src.tail) + 1

\* one pass of the loop of parse_bytes_kv at a position: the type byte, and
\* unless it closes the map the key and the payload
KvIteration(d, pos) ==
    Try(le_u8(d, pos), LAMBDA bin :
    IF bin.val = BIN_END THEN POk(bin.rest, HashMapNew) ELSE
    Try(parse_key(d, bin.rest, KeyValueOptionsDefault), LAMBDA key :
    parse_value(bin.val, d, key.rest, KeyValueOptionsDefault)))

\* every pass of the loop and every call of parse_bytes_kv that succeeds,
\* from whatever position of the input, leaves the cursor further on and
\* inside the input
KvConsumes ==
    \A p \in 1..(Len(data) + 1) :
        /\ With(KvIteration(data, p), LAMBDA r :
                r.ok => r.rest > p /\ r.rest <= Len(data) + 1)
        /\ With(parse_bytes_kv(data, p, KeyValueOptionsDefault), LAMBDA r :
                r.ok => r.rest > p /\ r.rest <= Len(data) + 1)

\* the canonical screenshots folder of the (id3, appid) of the request
FolderOfRequest ==
    canonicalize(src.fs, SteamRoot \o <<"userdata", ToString(src.id3), "760",
                                        "remote", ToString(src.appid), "screenshots">>)

\* the canonical path the filename of the request stands for
FileOfRequest == canonicalize(src.fs, join(FolderOfRequest.path, src.filename))

FileRequested == call = "get_screenshot_file" /\ src.class = "file"

\* the entries of a tree without those that a later entry of the same map
\* repeats the key of, at every nesting level
RECURSIVE LastOnly(_)
LastOnly(entries) ==
    IF entries = <<>> THEN <<>>
    ELSE IF \E j \in 2..Len(entries) : entries[j].key = entries[1].key
         THEN LastOnly(Tail(entries))
         ELSE <<[entries[1] EXCEPT !.sub = LastOnly(entries[1].sub)]>>
                  \o LastOnly(Tail(entries))

\* a key occurs twice among the entries of the top-level map
RepeatsKey(entries) ==
    \E i, j \in DOMAIN entries : i < j /\ entries[i].key = entries[j].key

\* the entry a key names among the entries of a map: the last one written
EntryOf(entries, k) ==
    IF \A i \in DOMAIN entries : entries[i].key # k THEN <<>>
    ELSE <<entries[CHOOSE i \in DOMAIN entries :
                      /\ entries[i].key = k
                      /\ \A j \in DOMAIN entries : entries[j].key = k => j <= i]>>

\* the value an entry denotes
ValueOf(e) == TreeOf(<<e>>)[e.key]

\* the entries of the map that the first n keys of a path lead to, each of
\* them naming a map in the map before it; <<>> when one of them does not
RECURSIVE MapAt(_, _, _)
MapAt(entries, keys, n) ==
    IF n = 0 THEN <<entries>>
    ELSE LET up == MapAt(entries, keys, n - 1) IN
         IF up = <<>> THEN <<>>
         ELSE LET e == EntryOf(up[1], keys[n]) IN
              IF e # <<>> /\ e[1].kind = "KeyValueType" THEN <<e[1].sub>>
              ELSE <<>>

\* what a path resolves to in a tree: the value its last key names in the
\* map its other keys lead to
Resolved(entries, keys) ==
    IF keys = <<>> THEN None
    ELSE LET up == MapAt(entries, keys, Len(keys) - 1) IN
         IF up = <<>> THEN None
         ELSE LET e == EntryOf(up[1], keys[Len(keys)]) IN
              IF e = <<>> THEN None ELSE Some(ValueOf(e[1]))

\* two values are the same, and so are two Option<&Value>
SameValue(a, b) ==
    /\ a.kind = b.kind
    /\ IF a.kind = "KeyValueType" THEN SameTree(a.val, b.val) ELSE a.val = b.val

SameOption(a, b) == Len(a) = Len(b) /\ (Len(a) = 1 => SameValue(a[1], b[1]))

(***************************************************************************)
(* Properties.                                                             *)
(***************************************************************************)
\* C1: AppInfo::load returns an error, and no catalog, whenever an app
\* record of the payload fails to decode; it never returns Ok with the
\* records decoded before the failure.
C1_FaultyRecordFailsLoad ==
    (Loaded /\ \E i \in DOMAIN src.items : FaultAt(src, i)) => ret.tag = "Err"

\* C2: once a record id of 0 has been read the app stream ends: the bytes
\* after that terminator add no app to the returned catalog.
C2_NothingDecodedAfterTerminator ==
    (Loaded /\ WellFormed(src) /\ ret.tag = "Ok")
        => DOMAIN ret.apps \subseteq IdsBeforeTerminator(src)

\* C3: whenever AppInfo::load returns Ok, the apps map has no entry with
\* key 0 and no App whose id is 0.
C3_NoAppZero ==
    (call = "load" /\ ret.tag = "Ok")
        => /\ 0 \notin DOMAIN ret.apps
           /\ \A k \in DOMAIN ret.apps : ret.apps[k].id # 0

\* C3, its case: a load that read a terminator and returned a catalog that
\* holds an app.
C3_TerminatorReadAndCatalogReturned ==
    /\ Loaded
    /\ ret.tag = "Ok"
    /\ \E i \in DOMAIN src.items : src.items[i].item = "end"
    /\ DOMAIN ret.apps # {}

\* C4: in every catalog loaded from a version-29 file, with a string pool of
\* any length N >= 0, every key at every depth of every app's key_values is
\* an entry of the string pool of the file.
C4_KeysComeFromPool ==
    (Loaded /\ ret.tag = "Ok" /\ ret.version = MAGIC_29)
        => \A k \in DOMAIN ret.apps :
              KeysOf(ret.apps[k].key_values) \subseteq PoolStrings(src)

\* C5: when keys are pool-indexed and a key index idx >= the pool length is
\* read, AppInfo::load returns VdfrError::InvalidStringIndex(idx, len).
C5_BadIndexIsInvalidStringIndex ==
    (Loaded /\ src.version = MAGIC_29 /\ src.pool # <<>>
        /\ \E i \in DOMAIN src.items :
              FaultAt(src, i) /\ src.items[i].item = "badindex")
        => /\ ret.tag = "Err"
           /\ ret.err.variant = "InvalidStringIndex"
           /\ ret.err.args = <<Len(src.pool), Len(src.pool)>>

\* C6: a byte at a type position that is neither the terminator nor a value
\* tag makes parse_keyvalues fail with VdfrError::InvalidType(t) carrying
\* that byte, whatever bytes follow it.
C6_UnknownTagIsInvalidType ==
    (call = "parse_keyvalues" /\ src.class = "badtag")
        => /\ ret.tag = "Err"
           /\ ret.err.variant = "InvalidType"
           /\ ret.err.args = <<src.tag>>

\* C7 as stated: AppInfo::load returns UnknownMagic(v) for every input whose
\* first four bytes are a magic v other than the three known, an input of
\* exactly four bytes included.
C7_UnknownMagicFromFourBytes ==
    (call = "load" /\ src.class = "header" /\ src.magic \in UnknownMagics)
        => /\ ret.tag = "Err"
           /\ ret.err = VdfrError("UnknownMagic", "None", <<src.magic>>)

\* C7, amended: AppInfo::load returns UnknownMagic(v) for every input of at
\* least eight bytes whose first four bytes are a magic v other than the
\* three known; on a shorter input it fails with a NomError of kind Eof, as
\* the universe is read before the magic is looked at.
C7_UnknownMagicFromEightBytes ==
    (call = "load" /\ src.class = "header" /\ src.magic \in UnknownMagics)
        => IF src.extra >= 4
           THEN /\ ret.tag = "Err"
                /\ ret.err = VdfrError("UnknownMagic", "None", <<src.magic>>)
           ELSE NomError("Eof")

\* C7, its cases: the magic FF FF FF FF alone, refused for its length, and
\* with a universe after it, refused for its value.
C7_BothHeadersRefused ==
    /\ call = "load"
    /\ src.class = "header"
    /\ src.magic = -1
    /\ \/ src.extra = 0 /\ ret.err.variant = "NomError"
       \/ src.extra = 4 /\ ret.err.variant = "UnknownMagic"

C9_WideStringIsItsCodeUnits ==
    (call = "parse_utf16" /\ src.class = "wide")
        => /\ ret.ok
           /\ ret.val = from_utf16_lossy(src.units, 1)

\* C10: round trip: a tree of the nine value kinds, written with the
\* version-28 rules and given to parse_keyvalues, comes back equal to the
\* original, key order aside.
C10_RoundTrip ==
    (call = "parse_keyvalues" /\ src.class = "kv")
        => /\ ret.tag = "Ok"
           /\ SameTree(ret.val, TreeOf(src.tree))

\* C11: App::get(keys) returns Some(v) exactly when keys is non-empty, every
\* key but the last names a KeyValueType child of the map before it, and
\* the last key names v; in every other case (empty path, missing key, an
\* intermediate value that is no map) it returns None.
C11_GetResolvesPath ==
    call = "get" => SameOption(ret, Resolved(src.tree, src.path))

\* C11, its case: a path of three keys led through two maps to a value.
C11_ValueFoundThroughTwoMaps ==
    /\ call = "get"
    /\ Len(src.path) = 3
    /\ Len(ret) = 1

\* C12: in every catalog returned by AppInfo::load, each app has
\* checksum_bin present if and only if the version is not MAGIC_27.
C12_ChecksumBinIffNot27 ==
    (call = "load" /\ ret.tag = "Ok")
        => \A k \in DOMAIN ret.apps :
              Len(ret.apps[k].checksum_bin) = 1 <=> ret.version # MAGIC_27

\* C12, its case: a version-27 file with a record and a terminator (whose
\* empty App carries a checksum_bin) has been loaded into a catalog.
C12_Version27CatalogReturned ==
    /\ Loaded
    /\ ret.tag = "Ok"
    /\ ret.version = MAGIC_27
    /\ DOMAIN ret.apps # {}
    /\ \E i \in DOMAIN src.items : src.items[i].item = "end"

\* C13: in every catalog returned by AppInfo::load, every entry (k, app) of
\* the apps map has app.id = k, also when several records share an id.
C13_KeyIsAppId ==
    (call = "load" /\ ret.tag = "Ok")
        => \A k \in DOMAIN ret.apps : ret.apps[k].id = k

\* C13, its case: a file with two records of the same id has been loaded,
\* and the catalog holds that id.
C13_DuplicateIdsLoaded ==
    /\ Loaded
    /\ ret.tag = "Ok"
    /\ \E i, j \in DOMAIN src.items :
          /\ i < j
          /\ src.items[i].item = "record"
          /\ src.items[j].item = "record"
          /\ src.items[i].id = src.items[j].id
          /\ src.items[i].id \in DOMAIN ret.apps

\* C14: when a key occurs more than once at one nesting level of a stream,
\* decoding succeeds and the map holds for that key the value of its last
\* occurrence; occurrences at other levels are unaffected.  The decoded map
\* is the one decoded from the stream with the earlier occurrences left out.
C14_LastOccurrenceWins ==
    (call = "parse_keyvalues" /\ src.class = "dup")
        => /\ ret.tag = "Ok"
           /\ LET last == parse_keyvalues(EncKV(LastOnly(src.tree))) IN
              last.tag = "Ok" /\ SameTree(ret.val, last.val)

\* C14, its case: a stream whose top-level map names a key twice has been
\* decoded.
C14_RepeatedKeyDecoded ==
    /\ call = "parse_keyvalues"
    /\ src.class = "dup"
    /\ RepeatsKey(src.tree)
    /\ ret.tag = "Ok"

\* C16: for every i32 value v, clamp_i32_to_u24(v) is v modulo 2^24 taken
\* on the two's-complement bit pattern, so it is below 2^24; in particular
\* clamp_i32_to_u24(-1) = 0x00FFFFFF and
\* clamp_i32_to_u24(-1195449660) = 12509892.
C16_ClampIsLow24Bits ==
    call = "clamp_i32_to_u24"
        => /\ ret \in 0..16777215
           /\ ret = src.value % 16777216
           /\ (src.value = -1 => ret = 16777215)
           /\ (src.value = -1195449660 => ret = 12509892)

\* C16, its case: the value of the unit test has been clamped.
C16_TestValueClamped ==
    /\ call = "clamp_i32_to_u24"
    /\ src.value = -1195449660
    /\ ret = 12509892

\* C15 as stated: the map returned for a decoded shortcuts.vdf tree has an
\* entry for a child of "shortcuts" if and only if the child is a map with
\* "appid" of kind Int32 and "AppName" of kind String or WideString; the
\* entry's key is its id, the low 24 bits of appid, and its name is the
\* child's AppName.
C15_EveryShortcutHasItsEntry ==
    ShortcutsLoaded
        => /\ DOMAIN ret = {Low24(c) : c \in ShortcutsRead}
           /\ \A c \in ShortcutsRead :
                 /\ ret[Low24(c)].id = Low24(c)
                 /\ ret[Low24(c)].name = NameOf(c)

\* C15, amended: the keys of the map are the low 24 bits of the appids of
\* the children that are such maps, every entry has its key as id and the
\* AppName of such a child with these low 24 bits as name; children that
\* agree in the low 24 bits of appid share one entry, which carries the
\* name of one of them.
C15_EntriesAreShortcuts ==
    ShortcutsLoaded
        => /\ DOMAIN ret = {Low24(c) : c \in ShortcutsRead}
           /\ \A k \in DOMAIN ret :
                 /\ ret[k].id = k
                 /\ \E c \in ShortcutsRead : Low24(c) = k /\ ret[k].name = NameOf(c)

\* C15, its case: a file with a shortcut and a child that is none has been
\* read, and the map holds the shortcut alone.
C15_ShortcutKeptAndChildSkipped ==
    /\ ShortcutsLoaded
    /\ Cardinality(DOMAIN shortcuts_in(parse_keyvalues(data).val)) = 2
    /\ Cardinality(ShortcutsRead) = 1
    /\ Cardinality(DOMAIN ret) = 1

\* C17: App::app_name returns Some(s) exactly when the value at the path
\* "appinfo", "common", "name" exists and is of kind String or WideString,
\* s being its text; it returns None when the path is missing, passes
\* through a value that is no map, or ends in a value of another kind.
C17_AppNameIsTextAtPath ==
    call = "app_name"
        => LET at == Resolved(src.tree, <<KeyAppinfo, KeyCommon, KeyName>>) IN
           IF at # None /\ at[1].kind \in {"StringType", "WideStringType"}
           THEN ret = Some(at[1].val)
           ELSE ret = None

\* C17, its case: the name of an app whose "name" is a WideString has been
\* returned.
C17_WideNameReturned ==
    /\ call = "app_name"
    /\ ret # None
    /\ Resolved(src.tree, <<KeyAppinfo, KeyCommon, KeyName>>)[1].kind = "WideStringType"

\* C18: an appinfo input whose header is immediately followed by the
\* terminator id 0 loads without error into a catalog with the header's
\* version and universe and an empty apps map, for versions 27 and 28 and
\* for version 29 with a string pool of count 0.
C18_ZeroAppsLoadEmpty ==
    (Loaded /\ src.items = <<>> /\ src.term /\ src.pool = <<>>)
        => /\ ret.tag = "Ok"
           /\ ret.version = src.version
           /\ ret.universe = src.universe
           /\ ret.apps = HashMapNew

\* C18, its case: a version-29 file of a header of universe 3, the
\* terminator and a string pool of count 0 has been loaded.
C18_EmptyVersion29Loaded ==
    /\ Loaded
    /\ src.items = <<>> /\ src.term /\ src.pool = <<>>
    /\ src.version = MAGIC_29
    /\ src.universe = 3
    /\ ret.tag = "Ok"

\* C19: after main has built SharedAppState no request handler changes
\* app_info, steam_users or users_shortcuts: under every interleaving of
\* concurrent requests the shared state is the one built from what main
\* loaded, and what each request has read of it is what main loaded.
C19_SharedStateIsWhatMainLoaded ==
    shared # None
        => /\ shared[1] = SharedAppState(main.app_info[1], main.steam_users,
                                         main.users_shortcuts)
           /\ \A i \in DOMAIN requests :
                 /\ requests[i].seen.steam_users \in {None, Some(main.steam_users)}
                 /\ requests[i].seen.users_shortcuts
                       \in {None, Some(main.users_shortcuts)}
                 /\ requests[i].seen.app_info \in {None, Some(main.app_info[1])}

\* C19, its case: two requests are in flight, one has read the shortcuts
\* and the catalog of a user and another, for an id3 that has no entry, has
\* looked for its shortcuts.
C19_TwoRequestsHaveRead ==
    \E i, j \in DOMAIN requests :
        /\ requests[i].pc = "listing"
        /\ requests[i].seen.app_info # None
        /\ requests[j].pc = "panicked"
        /\ requests[j].seen.users_shortcuts # None

\* C20: when the bytes of a user's shortcuts.vdf fail to parse, or parse to
\* a tree with no map under "shortcuts", load_users_shortcuts returns an
\* empty mapping, and main still records an entry for that user in
\* users_shortcuts and continues startup: once the user's turn of the loop
\* is over the user has an entry, which is empty, and main has not stopped;
\* when requests are served every user has an entry.
C20_UnreadableShortcutsGiveEmptyEntry ==
    /\ \A u \in DOMAIN main.steam_users \ main.pending :
          LET uid3 == steamid64_to_usteamid(u) IN
          (main.pc \in {"load_shortcuts", "serving"} /\ NoShortcutsRead(uid3))
             => /\ uid3 \in DOMAIN main.users_shortcuts
                /\ main.users_shortcuts[uid3] = HashMapNew
    /\ main.app_info # None => main.pc \in {"load_users", "load_shortcuts", "serving"}
    /\ main.pc = "serving"
          => DOMAIN shared[1].users_shortcuts
                = {steamid64_to_usteamid(u) : u \in DOMAIN main.steam_users}

\* C20, its case: requests are served after a start with two users, the
\* file of one holding a shortcut and the file of the other failing to parse.
C20_ServingAfterUnparsedFile ==
    /\ main.pc = "serving"
    /\ \E a, b \in DOMAIN shared[1].users_shortcuts :
          /\ shared[1].users_shortcuts[a] # HashMapNew
          /\ main.branch[b] = "Err"

\* C21: parse_utf16 ends a wide string at the first NUL code unit that lies
\* at an even byte offset from the string's start and leaves the cursor
\* exactly two bytes past that unit; two adjacent zero bytes that straddle
\* two code units are not taken as the terminator.
C21_CursorTwoPastNulUnit ==
    (call = "parse_utf16" /\ src.class = "wide")
        => /\ ret.ok
           /\ ret.rest = Len(EncWide(src.units, src.bom)) + 1

\* C22: for a version-29 file with pool offset p, 16 <= p <= file length - 4,
\* the pool is the N strings that follow the u32 count N at byte p, the load
\* fails when they cannot be read, whatever the records are, and otherwise
\* the catalog is what the bytes [16, p), and no byte from p on, decode to
\* with a pool of exactly these N entries.
C22_RecordsBeforeOffsetPoolAtOffset ==
    PoolInsideFile
        => IF PoolOfFile = None THEN ret.tag = "Err"
           ELSE /\ ret.tag = "Ok"
                /\ ret = load_apps(SubSeq(data, 17, src.offset[4]), 1,
                                   KeyValueOptions(PoolOfFile[1], FALSE),
                                   MAGIC_29, 1)

\* C22, its case: a file with a record before the pool and a record after
\* it has been loaded under the offset of its count, and the catalog holds
\* the first record with its key taken from the pool.
C22_RecordAfterPoolNotDecoded ==
    /\ PoolInsideFile
    /\ src.after # <<>>
    /\ src.count = 1
    /\ src.offset[4] = CountOffset(src)
    /\ ret.tag = "Ok"
    /\ DOMAIN ret.apps = {1}
    /\ DOMAIN ret.apps[1].key_values = {<<97>>}

\* C23 as stated: every record that is no terminator is read in the order
\* id, size, state, last_update, access_token, checksum_txt, change_number,
\* then checksum_bin when the version is not MAGIC_27, then the KV tree,
\* which starts 44 bytes after the record's start for version 27 and 64
\* bytes after it for versions 28 and 29.
C23_TreeAfter44Or64Bytes ==
    RecordParsed
        => /\ FieldsInOrder
           /\ TreeStartsAt(IF src.version = MAGIC_27 THEN 44 ELSE 64)

\* C23, amended: the same order, the KV tree starting 48 bytes after the
\* record's start for version 27 and 68 bytes after it for versions 28 and
\* 29 (4 + 4 + 4 + 4 + 8 + 20 + 4, and 20 more).
C23_TreeAfter48Or68Bytes ==
    RecordParsed
        => /\ FieldsInOrder
           /\ TreeStartsAt(IF src.version = MAGIC_27 THEN 48 ELSE 68)

\* C23, its case: a version-28 record with a nested map has been read, more
\* bytes of the stream following it.
C23_Version28RecordRead ==
    /\ RecordParsed
    /\ src.version = MAGIC_28
    /\ src.tail # <<>>
    /\ ret.ok
    /\ \E k \in DOMAIN ret.val.key_values : ret.val.key_values[k].kind = "KeyValueType"

\* C24: parse_keyvalues returns on every input, each pass of its loop and
\* each nested call consuming at least one byte, and it returns an error for
\* every input that ends before the byte that closes a map.
C24_ConsumesAndRejectsUnclosed ==
    call = "parse_keyvalues"
        => /\ ret.tag \in {"Ok", "Err"}
           /\ KvConsumes
           /\ src.class = "cut" => ret.tag = "Err"

\* C25: a version-29 file whose pool offset is negative, smaller than the 16
\* header bytes or beyond the file length makes AppInfo::load return an
\* error, the subtraction of 16 never panicking.
C25_OffsetOutsideFileIsError == PoolOutsideFile => ret.tag = "Err"

\* C26: get_screenshot_file answers with a file body only when the canonical
\* path of the filename lies inside the canonical screenshots folder of the
\* (id3, appid) of the request, and answers 403 to every filename that
\* resolves outside that folder.
C26_OnlyFilesOfTheFolderStreamed ==
    FileRequested
        => /\ ret.file # None
                => /\ FolderOfRequest.ok
                   /\ starts_with(ret.file[1], FolderOfRequest.path)
           /\ (/\ FolderOfRequest.ok
               /\ FileOfRequest.ok
               /\ ~starts_with(FileOfRequest.path, FolderOfRequest.path))
                => ret.tag = "Response" /\ ret.status = 403

\* C27: get_screenshot_apps and get_screenshot_app answer every id3 without
\* panicking: a request that has passed the checks of the user's folders
\* and looked the id3 up in users_shortcuts goes on to its response, an id3
\* without an entry being taken as one with an empty mapping.
C27_NoPanicWithoutShortcutsEntry ==
    \A i \in 1..MaxRequests :
        (/\ requests[i].handler \in {"get_screenshot_apps", "get_screenshot_app"}
         /\ requests[i].seen.users_shortcuts # None)
            => requests[i].pc # "panicked"

====
